---- MODULE Spec2Model ----
(***************************************************************************)
(* A model of the configuration-recommendation pipeline of                 *)
(* server/website/website/tasks/async_tasks.py.                            *)
(*                                                                         *)
(* Numbers.  The source computes with float64.  The model computes with    *)
(* fixed-point numbers: the integer n stands for n / Prec, so Fx(1) is 1.0.*)
(* Every division and square root rounds to the grid, which is how the     *)
(* model keeps the finite precision of the source's arithmetic.            *)
(***************************************************************************)
EXTENDS Integers, Sequences, FiniteSets, TLC

VARIABLES
    \* ---- one call of clean_knob_data ----
    session_knobs,      \* SessionKnob.objects.get_knobs_for_session(session)
    knob_matrix,        \* argument: rows of values
    knob_labels,        \* argument: the column labels of knob_matrix
    knob_call           \* "idle" | "called" | "returned" | an exception name
  , new_matrix          \* returned matrix
  , new_labels          \* returned labels
    \* ---- one call of clean_metric_data ----
  , metric_objs         \* MetricCatalog.objects.filter(dbms=session.dbms), names
  , target_objective    \* session.target_objective
  , metric_matrix       \* argument: rows of values
  , metric_labels       \* argument: the column labels of metric_matrix
  , metric_call         \* "idle" | "called" | "returned"
  , metric_out          \* returned matrix (the local `matrix`)
  , metric_cat          \* returned labels
    \* ---- the reward of one train_ddpg call ----
  , base_objective      \* objective of the session's first Result
  , prev_objective      \* objective of the most recent prior Result
  , objective           \* objective of the latest Result
  , improvement         \* metric_meta[target_objective].improvement
  , DDPG_SIMPLE_REWARD  \* params['DDPG_SIMPLE_REWARD']
  , reward              \* the reward, a fraction [num, den]
  , reward_call         \* "idle" | "called" | "returned"
    \* ---- the scoring of one map_workload call ----
  , unique_workloads    \* the workloads of the pipeline data, in iteration order
  , workload_results    \* the workloads that have Results (the others are skipped)
  , y_target            \* the target's metrics, standardized and binned
  , predictions         \* per scored workload: its binned predictions
  , scores_info         \* target_data['scores']: workload -> <<name, score>>
  , mapped_workload     \* target_data['mapped_workload']: <<id, name, score>>
  , map_call            \* "idle" | "called" | "returned"
    \* ---- the pipeline of one session ----
  , tuning_session      \* session.tuning_session
  , algorithm           \* the algorithm the session's pipelines are run with
  , has_pipeline_data   \* PipelineData exists for the workload
  , X_columnlabels      \* the knob labels of the Results' aggregated data
  , lhs_samples         \* session.lhs_samples
  , results             \* the session's Results, oldest first
  , stage               \* the task of the pipeline that runs next
  , target_data         \* the payload handed from task to task
  , lhs_call            \* for the claims: the last LHS-branch call
  , lhs_returned        \* for the claims: the pool elements returned so far
  , ddpg_reply_memory   \* session.ddpg_reply_memory: the samples added so far
  , lhs_generations     \* for the claims: the number of pools generated so far
  , lhs_issued          \* for the claims: the elements of all pools so far
  , ddpg_model          \* session.ddpg_actor_model and session.ddpg_critic_model
  , run_log             \* for the claims: the task executions so far, oldest first
    \* ---- one call of combine_workload ----
  , cw_target           \* argument: target_data
  , cw_workload         \* the PipelineData of the mapped workload
  , cw_session          \* the session's knobs, hyperparameters and target objective
  , cw_call             \* "idle" | "called" | "returned" | "raised"
  , cw_out              \* the returned values, or the exception
  , X_samples           \* the seed points configuration_recommendation builds
    \* ---- two aggregate_target_results invocations in the LHS branch ----
  , race_serialized     \* whether the invocations on the session are serialized
  , race_tuning_session \* session.tuning_session
  , race_lhs_samples    \* session.lhs_samples, as persisted
  , race_pc             \* per invocation: the statement it runs next
  , race_all_samples    \* per invocation: its local all_samples
  , race_config         \* per invocation: agg_data['config_recommend']
  , race_first_pool     \* for the claims: session.lhs_samples before the invocations
  , race_read_at        \* for the claims: per invocation, the saves done when it read

knob_vars == <<session_knobs, knob_matrix, knob_labels, knob_call, new_matrix, new_labels>>
metric_vars == <<metric_objs, target_objective, metric_matrix, metric_labels,
                 metric_call, metric_out, metric_cat>>
reward_vars == <<base_objective, prev_objective, objective, improvement,
                 DDPG_SIMPLE_REWARD, reward, reward_call>>
map_vars == <<unique_workloads, workload_results, y_target, predictions,
              scores_info, mapped_workload, map_call>>
session_vars == <<tuning_session, algorithm, has_pipeline_data, X_columnlabels>>
lhs_vars == <<lhs_samples, lhs_call, lhs_returned, lhs_generations, lhs_issued>>
ddpg_vars == <<ddpg_reply_memory, ddpg_model>>
pipeline_vars == <<session_vars, lhs_vars, ddpg_vars, results, stage, target_data, run_log>>
combine_vars == <<cw_target, cw_workload, cw_session, cw_call, cw_out, X_samples>>
race_vars == <<race_serialized, race_tuning_session, race_lhs_samples, race_pc,
               race_all_samples, race_config, race_first_pool, race_read_at>>
vars == <<knob_vars, metric_vars, reward_vars, map_vars, pipeline_vars, combine_vars,
          race_vars>>

(***************************************************************************)
(* Bounds of the model.                                                    *)
(***************************************************************************)
MaxMetrics == 2     \* metrics of a dbms catalog in the alignment model
MaxTrials == 2      \* Results (and pipeline runs) of the session
MaxLog == 8         \* task executions of a session that are followed
MaxObjective == 4   \* objective values 1..MaxObjective in the reward model
Prec == 100         \* fixed-point grid: 1.0 is Prec units
MaxRows == 2        \* rows of an input matrix
MaxKnobs == 2       \* knobs of a session catalog in the alignment model
MaxLabels == 3      \* labels of an input matrix in the alignment model

Fx(n) == n * Prec

(***************************************************************************)
(* Fixed-point arithmetic.                                                 *)
(***************************************************************************)
\* a / b rounded to the nearest integer (b > 0), halves up
RoundDiv(a, b) == (2 * a + b) \div (2 * b)

RECURSIVE ISqrtIn(_, _, _)
ISqrtIn(n, lo, hi) ==
    IF lo >= hi THEN lo
    ELSE LET mid == (lo + hi + 1) \div 2
         IN  IF mid * mid <= n THEN ISqrtIn(n, mid, hi) ELSE ISqrtIn(n, lo, mid - 1)

\* the integer square root of n >= 0
ISqrt(n) == ISqrtIn(n, 0, IF n < 46340 THEN n ELSE 46340)

\* int(round(x)) as a fixed-point number: the nearest integer, halves to even
RoundToInt(x) ==
    LET q == x \div Prec
        rem == x % Prec
    IN  IF 2 * rem > Prec \/ (2 * rem = Prec /\ q % 2 = 1) THEN Fx(q + 1) ELSE Fx(q)

\* int(x) of a fixed-point number x: the integer part, toward zero
TruncToInt(x) == IF x >= 0 THEN x \div Prec ELSE -((-x) \div Prec)


(***************************************************************************)
(* Small helpers on sequences.                                             *)
(***************************************************************************)
Range(s) == {s[i] : i \in DOMAIN s}

NoRepeat(s) == \A i, j \in DOMAIN s : s[i] = s[j] => i = j

SeqsUpTo(S, n) == UNION {[1..k -> S] : k \in 0..n}

\* list.index(x): the first position holding x, counted from 0
IndexOf(s, x) == (CHOOSE i \in DOMAIN s : s[i] = x /\ \A j \in 1..(i - 1) : s[j] # x) - 1

(***************************************************************************)
(* The knob catalog.  A knob is a record                                   *)
(*   [name, vartype, default, enumvals, minval, maxval].                   *)
(* default is the catalog's text, NoneVal when the field is None.          *)
(* enumvals is the comma-separated text, held as the sequence of its       *)
(* comma-free fields; a text always has at least one field, so the empty   *)
(* sequence stands for None.                                               *)
(***************************************************************************)
VarType == [BOOL |-> "BOOL", ENUM |-> "ENUM", INTEGER |-> "INTEGER",
            REAL |-> "REAL", STRING |-> "STRING", TIMESTAMP |-> "TIMESTAMP"]

NoneVal == "<None>"
NoEnumvals == << >>

(***************************************************************************)
(* Texts and their conversions.  float(text) and str(x).lower() are given  *)
(* by tables over the texts the model uses.                                *)
(***************************************************************************)
NumericValue == [t \in {"0", "1", "2", "7", "10"} |->
                   CASE t = "0" -> 0 [] t = "1" -> 1 [] t = "2" -> 2
                     [] t = "7" -> 7 [] t = "10" -> 10]

\* float(text): [exc |-> "none", val |-> the number] or the exception raised
FloatOf(text) ==
    IF text = NoneVal THEN [exc |-> "TypeError", val |-> 0]
    ELSE IF text \in DOMAIN NumericValue
         THEN [exc |-> "none", val |-> Fx(NumericValue[text])]
         ELSE [exc |-> "ValueError", val |-> 0]

\* str(x).lower(); str(None) is "None"
StrLower(text) ==
    CASE text = NoneVal -> "none"
      [] text = "ON" -> "on"
      [] text = "OFF" -> "off"
      [] text = "True" -> "true"
      [] text = "False" -> "false"
      [] OTHER -> text

(***************************************************************************)
(* clean_knob_data, lines 92-146.                                          *)
(***************************************************************************)
\* lines 115-124: the default of a knob missing from the input, converted
\* by type; ValueError is caught (0 is substituted), nothing else is
ConvertDefault(knob) ==
    IF knob.vartype = VarType.ENUM
    THEN IF knob.enumvals = NoEnumvals
         THEN [exc |-> "AttributeError", val |-> 0]
         ELSE IF knob.default \in Range(knob.enumvals)
              THEN [exc |-> "none", val |-> Fx(IndexOf(knob.enumvals, knob.default))]
              ELSE [exc |-> "none", val |-> 0]
    ELSE IF knob.vartype = VarType.BOOL
    THEN [exc |-> "none",
          val |-> IF StrLower(knob.default) \in {"on", "true", "yes", "0"}
                  THEN Fx(1) ELSE Fx(0)]
    ELSE LET f == FloatOf(knob.default)
         IN  IF f.exc = "ValueError" THEN [exc |-> "none", val |-> 0] ELSE f

\* lines 110-133: one entry of new_columns.  A missing knob gives an array of
\* shape (nrows, 1), a present knob the slice knob_matrix[:, index] of shape
\* (nrows,)
NewColumn(knob, matrix, labels) ==
    IF knob.name \notin Range(labels)
    THEN LET d == ConvertDefault(knob)
         IN  [exc |-> d.exc, ndim |-> 2, data |-> [r \in 1..Len(matrix) |-> d.val]]
    ELSE LET index == IndexOf(labels, knob.name) + 1
         IN  [exc |-> "none", ndim |-> 1,
              data |-> [r \in 1..Len(matrix) |-> matrix[r][index]]]

\* line 135: np.hstack(new_columns).reshape(nrows, -1).  hstack joins arrays
\* of one dimension end to end when the first array has one dimension, and
\* side by side otherwise; arrays of different dimensions raise ValueError.
\* reshape then reads the joined array row by row.
HstackReshape(cols, nrows) ==
    LET ncols == Len(cols)
        flat == [k \in 1..(nrows * ncols) |->
                   cols[((k - 1) \div nrows) + 1].data[((k - 1) % nrows) + 1]]
    IN  IF ncols = 0 \/ \E i, j \in 1..ncols : cols[i].ndim # cols[j].ndim
        THEN [exc |-> "ValueError", matrix |-> << >>]
        ELSE IF cols[1].ndim = 1
        THEN [exc |-> "none",
              matrix |-> [r \in 1..nrows |->
                            [c \in 1..ncols |-> flat[(r - 1) * ncols + c]]]]
        ELSE [exc |-> "none",
              matrix |-> [r \in 1..nrows |-> [c \in 1..ncols |-> cols[c].data[r]]]]

\* the whole function: [exc, matrix, labels]
CleanKnobData(matrix, labels, knobs) ==
    LET knob_cat == [i \in 1..Len(knobs) |-> knobs[i].name]
        nrows == Len(matrix)
        new_columns == [i \in 1..Len(knobs) |-> NewColumn(knobs[i], matrix, labels)]
        raising == {i \in 1..Len(knobs) : new_columns[i].exc # "none"}
        first == CHOOSE i \in raising : \A j \in raising : i <= j
        stacked == HstackReshape(new_columns, nrows)
    IN  IF knob_cat = labels
        THEN [exc |-> "none", matrix |-> matrix, labels |-> labels]
        ELSE IF raising # {}
        THEN [exc |-> new_columns[first].exc, matrix |-> << >>, labels |-> << >>]
        ELSE [exc |-> stacked.exc, matrix |-> stacked.matrix,
              labels |-> IF stacked.exc = "none" THEN knob_cat ELSE << >>]

(***************************************************************************)
(* The calls of clean_knob_data the alignment model makes: a catalog of up *)
(* to MaxKnobs knobs, a label list without repeats holding catalog names   *)
(* and a name the catalog does not know, and a matrix of distinct values   *)
(* (a function that only moves values is decided by what it does to a      *)
(* matrix whose cells all differ).                                         *)
(***************************************************************************)
Knob(name, vartype, default, enumvals, minval, maxval) ==
    [name |-> name, vartype |-> vartype, default |-> default,
     enumvals |-> enumvals, minval |-> minval, maxval |-> maxval]

IsolationVals == <<"read-uncommitted", "read-committed">>

KnobVariants ==
    {Knob("isolation", VarType.ENUM, d, IsolationVals, "0", "1") :
        d \in {"read-committed", "serializable", NoneVal}}
    \cup {Knob("isolation", VarType.ENUM, "read-committed", NoEnumvals, "0", "1")}
    \cup {Knob("autocommit", VarType.BOOL, d, NoEnumvals, "0", "1") :
        d \in {"on", "OFF", "True", "0", "1"}}
    \cup {Knob("buffer_pool", VarType.INTEGER, d, NoEnumvals, "0", "10") :
        d \in {"7", "abc", NoneVal}}

KnobNames == {k.name : k \in KnobVariants}

AlignCatalogs ==
    {c \in SeqsUpTo(KnobVariants, MaxKnobs) :
        Len(c) >= 1 /\ NoRepeat([i \in 1..Len(c) |-> c[i].name])}

AlignLabels ==
    {l \in SeqsUpTo(KnobNames \cup {"unknown_knob"}, MaxLabels) : NoRepeat(l)}

\* the value of cell (r, c) of an input matrix
Cell(r, c) == Fx(10 * r + c)

InputMatrix(nrows, ncols) == [r \in 1..nrows |-> [c \in 1..ncols |-> Cell(r, c)]]

KnobCallIdle ==
    /\ session_knobs = << >>
    /\ knob_matrix = << >>
    /\ knob_labels = << >>
    /\ knob_call = "idle"
    /\ new_matrix = << >>
    /\ new_labels = << >>

NoReward == [num |-> 0, den |-> 1]

\* Python's None where a tuple or an id is expected
NoWorkload == << >>

\* Python's None where a configuration, a payload or a record is expected
NoConfig == << >>
NoPayload == << >>
NoCall == << >>

PipelineIdle ==
    /\ tuning_session = ""
    /\ algorithm = ""
    /\ has_pipeline_data = FALSE
    /\ X_columnlabels = << >>
    /\ lhs_samples = << >>
    /\ results = << >>
    /\ stage = "idle"
    /\ target_data = NoPayload
    /\ lhs_call = NoCall
    /\ lhs_returned = << >>
    /\ lhs_generations = 0
    /\ lhs_issued = {}
    /\ ddpg_reply_memory = << >>
    /\ ddpg_model = << >>
    /\ run_log = << >>

MapIdle ==
    /\ unique_workloads = << >>
    /\ workload_results = {}
    /\ y_target = << >>
    /\ predictions = << >>
    /\ scores_info = << >>
    /\ mapped_workload = NoWorkload
    /\ map_call = "idle"

RewardIdle ==
    /\ base_objective = 0
    /\ prev_objective = 0
    /\ objective = 0
    /\ improvement = ""
    /\ DDPG_SIMPLE_REWARD = FALSE
    /\ reward = NoReward
    /\ reward_call = "idle"

MetricCallIdle ==
    /\ metric_objs = << >>
    /\ target_objective = ""
    /\ metric_matrix = << >>
    /\ metric_labels = << >>
    /\ metric_call = "idle"
    /\ metric_out = << >>
    /\ metric_cat = << >>

CombineIdle ==
    /\ cw_target = NoPayload
    /\ cw_workload = NoPayload
    /\ cw_session = NoPayload
    /\ cw_call = "idle"
    /\ cw_out = NoPayload
    /\ X_samples = << >>

RaceIdle ==
    /\ race_serialized = TRUE
    /\ race_tuning_session = ""
    /\ race_lhs_samples = << >>
    /\ race_pc = << >>
    /\ race_all_samples = << >>
    /\ race_config = << >>
    /\ race_first_pool = << >>
    /\ race_read_at = << >>

InitKnobs ==
    /\ session_knobs \in AlignCatalogs
    /\ knob_labels \in AlignLabels
    /\ \E nrows \in 1..MaxRows : knob_matrix = InputMatrix(nrows, Len(knob_labels))
    /\ knob_call = "called"
    /\ new_matrix = << >>
    /\ new_labels = << >>
    /\ MetricCallIdle
    /\ RewardIdle
    /\ MapIdle
    /\ PipelineIdle
    /\ CombineIdle
    /\ RaceIdle

\* one call of clean_knob_data(knob_matrix, knob_labels, session)
clean_knob_data ==
    /\ knob_call = "called"
    /\ LET res == CleanKnobData(knob_matrix, knob_labels, session_knobs)
       IN  /\ knob_call' = IF res.exc = "none" THEN "returned" ELSE res.exc
           /\ new_matrix' = res.matrix
           /\ new_labels' = res.labels
    /\ UNCHANGED <<session_knobs, knob_matrix, knob_labels, metric_vars, reward_vars,
                   map_vars, pipeline_vars, combine_vars,
                   race_vars>>

NextKnobs == clean_knob_data

SpecKnobs == InitKnobs /\ [][NextKnobs]_vars

(***************************************************************************)
(* Claims about clean_knob_data, checked under SpecKnobs.                  *)
(***************************************************************************)
KnobCat == [i \in 1..Len(session_knobs) |-> session_knobs[i].name]

MissingKnobs == {i \in 1..Len(session_knobs) : session_knobs[i].name \notin Range(knob_labels)}

KnobCallOver == knob_call \notin {"idle", "called"}

\* C2: for every label list without repeats, clean_knob_data returns the
\* catalog names in catalog order and a matrix with the input's rows and one
\* column per catalog knob, in which every column that the input holds keeps
\* the input's values (a default that cannot be converted is C9's matter).
C2_AlignedToCatalog ==
    (KnobCallOver /\ knob_call \notin {"TypeError", "AttributeError"}) =>
        /\ knob_call = "returned"
        /\ new_labels = KnobCat
        /\ Len(new_matrix) = Len(knob_matrix)
        /\ \A r \in 1..Len(new_matrix) : Len(new_matrix[r]) = Len(session_knobs)
        /\ \A i \in (1..Len(session_knobs)) \ MissingKnobs :
              \A r \in 1..Len(knob_matrix) :
                 new_matrix[r][i] = knob_matrix[r][IndexOf(knob_labels, KnobCat[i]) + 1]

\* what a boolean default denotes
DenotesTrue(text) == StrLower(text) \in {"on", "true", "yes", "1"}
DenotesFalse(text) == StrLower(text) \in {"off", "false", "no", "0"}

\* the defaults the claims call convertible
Convertible(knob) ==
    IF knob.vartype = VarType.ENUM
    THEN knob.default \in Range(knob.enumvals)
    ELSE IF knob.vartype = VarType.BOOL
    THEN DenotesTrue(knob.default) \/ DenotesFalse(knob.default)
    ELSE knob.default \in DOMAIN NumericValue

\* the value C3 asks of a convertible default
ExpectedDefault(knob) ==
    IF knob.vartype = VarType.ENUM
    THEN Fx(IndexOf(knob.enumvals, knob.default))
    ELSE IF knob.vartype = VarType.BOOL
    THEN (IF DenotesTrue(knob.default) THEN Fx(1) ELSE Fx(0))
    ELSE Fx(NumericValue[knob.default])

\* C3: every catalog knob missing from the input yields a column whose every
\* row is the catalog default converted by type: an enum default its index in
\* the enum-value list, a boolean default 1 when it denotes true and 0 when
\* it denotes false, any other default its numeric value.
C3_DefaultColumns ==
    knob_call = "returned" =>
        \A i \in MissingKnobs :
            Convertible(session_knobs[i]) =>
                \A r \in 1..Len(new_matrix) :
                    new_matrix[r][i] = ExpectedDefault(session_knobs[i])

\* C9: clean_knob_data never raises because of a default it cannot convert:
\* the call returns, and the column of every missing knob whose default
\* cannot be converted is 0 (a ValueError of np.hstack is C2's matter).
C9_DefaultNeverRaises ==
    (KnobCallOver /\ knob_call # "ValueError") =>
        /\ knob_call = "returned"
        /\ \A i \in MissingKnobs :
              ~Convertible(session_knobs[i]) =>
                  \A r \in 1..Len(new_matrix) : new_matrix[r][i] = 0

(***************************************************************************)
(* clean_metric_data, lines 149-170.                                       *)
(***************************************************************************)
\* line 162: {n: i for i, n in enumerate(metric_labels)}: a label that
\* occurs twice keeps its last position (counted from 0)
MetricLabelsDict(labels) ==
    [n \in Range(labels) |->
        (CHOOSE i \in DOMAIN labels :
            labels[i] = n /\ \A j \in DOMAIN labels : labels[j] = n => j <= i) - 1]

\* line 159: default_val
MetricDefaultVal == 0

CleanMetricDataOnes(m, labels, objs, target) ==
    LET cat == <<target>> \o objs
        d == MetricLabelsDict(labels)
    IN  [matrix |-> [r \in 1..Len(m) |-> [i \in 1..Len(cat) |->
                        IF cat[i] \in DOMAIN d THEN m[r][d[cat[i]] + 1] ELSE Fx(1)]],
         labels |-> cat]

\* the whole function: [matrix, labels]
CleanMetricData(m, labels, objs, target) ==
    LET cat == <<target>> \o objs
        d == MetricLabelsDict(labels)
    IN  [matrix |-> [r \in 1..Len(m) |-> [i \in 1..Len(cat) |->
                        IF cat[i] \in DOMAIN d
                        THEN m[r][d[cat[i]] + 1]
                        ELSE Fx(1) * MetricDefaultVal]],
         labels |-> cat]

MetricNames == {"throughput", "latency", "commits"}

InitMetrics ==
    /\ metric_objs \in {c \in SeqsUpTo(MetricNames, MaxMetrics) : NoRepeat(c)}
    /\ target_objective \in MetricNames
    /\ metric_labels \in SeqsUpTo(MetricNames \cup {"unused_metric"}, MaxLabels)
    /\ \E nrows \in 1..MaxRows : metric_matrix = InputMatrix(nrows, Len(metric_labels))
    /\ metric_call = "called"
    /\ metric_out = << >>
    /\ metric_cat = << >>
    /\ KnobCallIdle
    /\ RewardIdle
    /\ MapIdle
    /\ PipelineIdle
    /\ CombineIdle
    /\ RaceIdle

\* one call of clean_metric_data(metric_matrix, metric_labels, session)
clean_metric_data ==
    /\ metric_call = "called"
    /\ LET res == CleanMetricData(metric_matrix, metric_labels, metric_objs,
                                  target_objective)
       IN  /\ metric_out' = res.matrix
           /\ metric_cat' = res.labels
    /\ metric_call' = "returned"
    /\ UNCHANGED <<metric_objs, target_objective, metric_matrix, metric_labels,
                   knob_vars, reward_vars, map_vars, pipeline_vars, combine_vars,
                   race_vars>>

NextMetrics == clean_metric_data

SpecMetrics == InitMetrics /\ [][NextMetrics]_vars

\* the last position of label n in the input labels
LastPos(n) == CHOOSE i \in DOMAIN metric_labels :
                 metric_labels[i] = n /\ \A j \in DOMAIN metric_labels :
                                            metric_labels[j] = n => j <= i

\* C10: clean_metric_data returns the target objective followed by the
\* catalog names in catalog order, and a matrix with the input's rows in
\* which a column whose label the input holds is a copy of that input
\* column and every other column is all zeros.
C10_AlignedMetrics ==
    metric_call = "returned" =>
        /\ metric_cat = <<target_objective>> \o metric_objs
        /\ Len(metric_out) = Len(metric_matrix)
        /\ \A r \in 1..Len(metric_out) :
              /\ Len(metric_out[r]) = Len(metric_cat)
              /\ \A i \in 1..Len(metric_cat) :
                    IF metric_cat[i] \in Range(metric_labels)
                    THEN metric_out[r][i] = metric_matrix[r][LastPos(metric_cat[i])]
                    ELSE metric_out[r][i] = 0

\* a call that copied a column, filled a column and dropped a column
C10_Witness ==
    /\ metric_call = "returned"
    /\ Len(metric_out) = MaxRows
    /\ \E i \in 1..Len(metric_cat) : metric_cat[i] \in Range(metric_labels)
    /\ \E i \in 1..Len(metric_cat) : metric_cat[i] \notin Range(metric_labels)
    /\ \E j \in 1..Len(metric_labels) : metric_labels[j] \notin Range(metric_cat)


\* the number of times the target objective occurs in the returned labels
ObjectiveOccurrences ==
    Cardinality({i \in 1..Len(metric_cat) : metric_cat[i] = target_objective})

\* C24: the labels clean_metric_data returns hold the session's target
\* objective exactly once, whatever the metric catalog of the dbms lists, so
\* that the check of train_ddpg on these labels (lines 367-375) does not raise.
C24_ObjectiveOnce ==
    metric_call = "returned" => ObjectiveOccurrences = 1

(***************************************************************************)
(* The reward of train_ddpg, lines 383-402.  The reward is a quotient of   *)
(* products of the three objectives; the model keeps it as the exact       *)
(* fraction num / den with den > 0, so that its sign and the order of two  *)
(* rewards are those of the source's expression.                           *)
(***************************************************************************)
LESS_IS_BETTER == "(less is better)"
MORE_IS_BETTER == "(more is better)"

Abs(x) == IF x < 0 THEN -x ELSE x

Frac(n, d) == [num |-> n, den |-> d]
FracNeg(x) == Frac(-x.num, x.den)
FracPositive(x) == x.num > 0
FracLess(x, y) == IF x.den = y.den THEN x.num < y.num
                  ELSE x.num * y.den < y.num * x.den

\* (np.square((2 * base - cur) / base) - 1) * abs(2 * prev - cur) / prev
MirroredTerm(base, prev, cur) ==
    Frac(((2 * base - cur) * (2 * base - cur) - base * base) * Abs(2 * prev - cur),
         base * base * prev)

\* (np.square(cur / base) - 1) * cur / prev
DirectTerm(base, prev, cur) ==
    Frac((cur * cur - base * base) * cur, base * base * prev)

RewardDirectRatio(simple, improve, base, prev, cur) ==
    IF simple
    THEN (IF improve = LESS_IS_BETTER THEN Frac(-cur, base) ELSE Frac(cur, base))
    ELSE IF improve = LESS_IS_BETTER
    THEN (IF cur - base <= 0
          THEN DirectTerm(base, prev, cur)
          ELSE FracNeg(DirectTerm(base, prev, cur)))
    ELSE (IF cur - base > 0
          THEN DirectTerm(base, prev, cur)
          ELSE FracNeg(MirroredTerm(base, prev, cur)))

\* lines 384-402
Reward(simple, improve, base, prev, cur) ==
    IF simple
    THEN (IF improve = LESS_IS_BETTER THEN Frac(-cur, base) ELSE Frac(cur, base))
    ELSE IF improve = LESS_IS_BETTER
    THEN (IF cur - base <= 0
          THEN MirroredTerm(base, prev, cur)
          ELSE FracNeg(DirectTerm(base, prev, cur)))
    ELSE (IF cur - base > 0
          THEN DirectTerm(base, prev, cur)
          ELSE FracNeg(MirroredTerm(base, prev, cur)))

ObjectiveValues == (1..MaxObjective) \cup {80, 90, 95, 100}

InitReward ==
    /\ base_objective \in ObjectiveValues
    /\ prev_objective \in ObjectiveValues
    /\ objective \in ObjectiveValues
    /\ improvement \in {LESS_IS_BETTER, MORE_IS_BETTER}
    /\ DDPG_SIMPLE_REWARD \in BOOLEAN
    /\ reward = NoReward
    /\ reward_call = "called"
    /\ KnobCallIdle
    /\ MetricCallIdle
    /\ MapIdle
    /\ PipelineIdle
    /\ CombineIdle
    /\ RaceIdle

\* lines 383-403 of one train_ddpg call
calculate_reward ==
    /\ reward_call = "called"
    /\ reward' = Reward(DDPG_SIMPLE_REWARD, improvement, base_objective,
                        prev_objective, objective)
    /\ reward_call' = "returned"
    /\ UNCHANGED <<base_objective, prev_objective, objective, improvement,
                   DDPG_SIMPLE_REWARD, knob_vars, metric_vars, map_vars, pipeline_vars, combine_vars,
                   race_vars>>

NextReward == calculate_reward

SpecReward == InitReward /\ [][NextReward]_vars

ShapedLessIsBetter ==
    /\ reward_call = "returned"
    /\ ~DDPG_SIMPLE_REWARD
    /\ improvement = LESS_IS_BETTER

\* the shaped reward of another current value, same base and prev
RewardFor(cur) == Reward(FALSE, LESS_IS_BETTER, base_objective, prev_objective, cur)

\* C8 as stated: with the shaped reward and a 'lower is better' objective,
\* every cur < base gives a strictly positive reward, and of two values
\* cur < cur2 < base the smaller gives the strictly greater reward.
C8_AsStated ==
    (ShapedLessIsBetter /\ objective < base_objective) =>
        /\ FracPositive(reward)
        /\ \A cur2 \in ObjectiveValues :
              (objective < cur2 /\ cur2 < base_objective) =>
                  FracLess(RewardFor(cur2), reward)

\* C8 amended: with the shaped reward and a 'lower is better' objective,
\* every cur < base other than 2 * prev gives a strictly positive reward (at
\* cur = 2 * prev the reward is 0), and of two values cur < cur2 < base with
\* cur2 <= 2 * prev the smaller gives the strictly greater reward; base=100,
\* prev=90 gives a greater positive reward for cur=80 than for cur=95.
C8_ShapedReward ==
    (ShapedLessIsBetter /\ objective < base_objective) =>
        /\ (objective # 2 * prev_objective => FracPositive(reward))
        /\ (objective = 2 * prev_objective => reward.num = 0)
        /\ \A cur2 \in ObjectiveValues :
              (objective < cur2 /\ cur2 < base_objective /\ cur2 <= 2 * prev_objective) =>
                  FracLess(RewardFor(cur2), reward)
        /\ (base_objective = 100 /\ prev_objective = 90 /\ objective = 80) =>
              (FracPositive(RewardFor(95)) /\ FracLess(RewardFor(95), reward))

\* the scenario of the claim: base=100, prev=90, cur=80
C8_Witness ==
    /\ ShapedLessIsBetter
    /\ base_objective = 100
    /\ prev_objective = 90
    /\ objective = 80
    /\ FracPositive(reward)

(***************************************************************************)
(* The scoring and the choice of map_workload, lines 945-996.  The binned  *)
(* predictions come from the regression surrogate and the decile binner,   *)
(* which are not part of this file: the model draws them from the bins.    *)
(***************************************************************************)
\* line 930: Bin(bin_start=1, axis=0)
BinStart == 1
\* the binner makes deciles
NumDeciles == 10
\* the bins the model draws from: the lowest and the highest decile
BinValues == {BinStart, BinStart + NumDeciles - 1}

\* global_pruned_metrics: the metric columns that are scored
PrunedMetrics == <<"throughput", "latency">>

BinnedMatrices(nrows) == [1..nrows -> [1..Len(PrunedMetrics) -> BinValues]]

RECURSIVE SumOver(_, _)
\* the sum of f over its domain 1..n
SumOver(f, n) == IF n = 0 THEN 0 ELSE f[n] + SumOver(f, n - 1)

MaxBinGap == NumDeciles - 1
\* np.sqrt on the fixed-point grid: the square root of n, given in units of
\* 1 / Prec and rounded down
SqrtFx(n) == ISqrt(n * Prec * Prec)

ScoreUnsquared(pred, target) ==
    LET nrows == Len(target)
        dists == [r \in 1..nrows |->
                    SqrtFx(Abs(SumOver([c \in 1..Len(target[r]) |->
                                           pred[r][c] - target[r][c]],
                                       Len(target[r]))))]
    IN  SumOver(dists, nrows) \div nrows

\* lines 979-981: np.mean(np.sqrt(np.sum(np.square(predictions - y_target), axis=1)))
Score(pred, target) ==
    LET nrows == Len(target)
        dists == [r \in 1..nrows |->
                    SqrtFx(SumOver([c \in 1..Len(target[r]) |->
                                       (pred[r][c] - target[r][c])
                                       * (pred[r][c] - target[r][c])],
                                   Len(target[r])))]
    IN  SumOver(dists, nrows) \div nrows

\* Workload.objects.get(pk=workload_id).name
WorkloadName(id) == IF id = 1 THEN "tpcc" ELSE "ycsb"

\* lines 984-986: best_score = np.inf, best_workload_id = None
NoBest == [inf |-> TRUE, id |-> 0, score |-> 0]

RECURSIVE BestOfLast(_, _, _)
BestOfLast(items, scores, best) ==
    IF items = << >> THEN best
    ELSE LET w == Head(items)
         IN  BestOfLast(Tail(items), scores,
                        IF best.inf \/ scores[w] <= best.score
                        THEN [inf |-> FALSE, id |-> w, score |-> scores[w]]
                        ELSE best)

RECURSIVE BestOf(_, _, _)
\* lines 988-993: the loop over scores.items(), which keeps a workload only
\* when its score is below the best so far
BestOf(items, scores, best) ==
    IF items = << >> THEN best
    ELSE LET w == Head(items)
         IN  BestOf(Tail(items), scores,
                    IF best.inf \/ scores[w] < best.score
                    THEN [inf |-> FALSE, id |-> w, score |-> scores[w]]
                    ELSE best)

\* the items of s that are in S, in the order of s
RECURSIVE Filter(_, _)
Filter(s, S) ==
    IF s = << >> THEN << >>
    ELSE (IF Head(s) \in S THEN <<Head(s)>> ELSE << >>) \o Filter(Tail(s), S)

WorkloadIds == {1, 2}

InitMap ==
    /\ unique_workloads \in {o \in SeqsUpTo(WorkloadIds, Cardinality(WorkloadIds)) :
                                NoRepeat(o)}
    /\ workload_results \in SUBSET Range(unique_workloads)
    /\ \E nrows \in 1..MaxRows :
          /\ y_target \in BinnedMatrices(nrows)
          /\ predictions \in [workload_results -> BinnedMatrices(nrows)]
    /\ scores_info = << >>
    /\ mapped_workload = NoWorkload
    /\ map_call = "called"
    /\ KnobCallIdle
    /\ MetricCallIdle
    /\ RewardIdle
    /\ PipelineIdle
    /\ CombineIdle
    /\ RaceIdle

\* lines 862-996 of map_workload for a payload that is not bad: the
\* workloads without Results are skipped, the others are scored and the best
\* one is chosen; with no workload left the payload gets no mapping
map_workload_score ==
    /\ map_call = "called"
    /\ LET workload_data == Filter(unique_workloads, workload_results)
           scores == [w \in Range(workload_data) |-> Score(predictions[w], y_target)]
           best == BestOf(workload_data, scores, NoBest)
       IN  IF workload_data = << >>
           THEN /\ mapped_workload' = NoWorkload
                /\ scores_info' = << >>
           ELSE /\ mapped_workload' =
                      IF best.inf THEN NoWorkload
                      ELSE <<best.id, WorkloadName(best.id), best.score>>
                /\ scores_info' = [w \in Range(workload_data) |->
                                      <<WorkloadName(w), scores[w]>>]
    /\ map_call' = "returned"
    /\ UNCHANGED <<unique_workloads, workload_results, y_target, predictions,
                   knob_vars, metric_vars, reward_vars, pipeline_vars, combine_vars,
                   race_vars>>

NextMap == map_workload_score

SpecMap == InitMap /\ [][NextMap]_vars

(***************************************************************************)
(* Claims about map_workload, checked under SpecMap.                       *)
(***************************************************************************)
Scored == DOMAIN scores_info

ScoreOf(w) == scores_info[w][2]

MinimalScored == {w \in Scored : \A v \in Scored : ScoreOf(w) <= ScoreOf(v)}

\* the position of workload w in the iteration order
PositionOf(w) == IndexOf(unique_workloads, w)

\* C6: when at least one candidate is scored, the mapped workload has a
\* score no greater than that of any scored candidate; when the minimum is
\* unique it is that candidate whatever the iteration order, and among equal
\* minimal scores it is the first one iterated.  The best score reported is
\* the chosen workload's entry of the score map, which has one entry per
\* scored candidate.
C6_MinimumScoreChosen ==
    (map_call = "returned" /\ workload_results # {}) =>
        /\ Scored = workload_results
        /\ mapped_workload # NoWorkload
        /\ mapped_workload[1] \in Scored
        /\ \A v \in Scored : mapped_workload[3] <= ScoreOf(v)
        /\ mapped_workload[3] = ScoreOf(mapped_workload[1])
        /\ mapped_workload[2] = scores_info[mapped_workload[1]][1]
        /\ (Cardinality(MinimalScored) = 1 => MinimalScored = {mapped_workload[1]})
        /\ mapped_workload[1] \in MinimalScored
        /\ \A v \in MinimalScored : PositionOf(mapped_workload[1]) <= PositionOf(v)

\* two candidates with equal, non-zero scores: the first one iterated is chosen
C6_Witness ==
    /\ map_call = "returned"
    /\ Cardinality(Scored) = 2
    /\ Cardinality(MinimalScored) = 2
    /\ mapped_workload[1] = unique_workloads[1]
    /\ ScoreOf(mapped_workload[1]) > 0

\* C7: every similarity score is non-negative, and it is 0 exactly when the
\* candidate's binned predictions equal the target's binned values in every
\* row and every metric column.
C7_ScoreZeroIffEqual ==
    map_call = "returned" =>
        \A w \in Scored :
            /\ ScoreOf(w) >= 0
            /\ (ScoreOf(w) = 0) <=> (predictions[w] = y_target)

\* one candidate predicts the target exactly, another does not
C7_Witness ==
    /\ map_call = "returned"
    /\ Len(y_target) = MaxRows
    /\ \E w, v \in Scored :
          /\ ScoreOf(w) = 0 /\ predictions[w] = y_target
          /\ ScoreOf(v) > 0 /\ predictions[v] # y_target

(***************************************************************************)
(* Cold-start configurations: gen_lhs_samples (lines 282-317) and          *)
(* gen_random_data (lines 251-279).  A configuration is a function from    *)
(* knob names to values.                                                   *)
(***************************************************************************)
\* lines 288-292: float(knob['maxval']) and float(knob['minval']) of every knob
BoundsException(knobs) ==
    IF \E i \in 1..Len(knobs) :
          FloatOf(knobs[i].maxval).exc = "TypeError" \/ FloatOf(knobs[i].minval).exc = "TypeError"
    THEN "TypeError"
    ELSE IF \E i \in 1..Len(knobs) :
          FloatOf(knobs[i].maxval).exc = "ValueError" \/ FloatOf(knobs[i].minval).exc = "ValueError"
    THEN "ValueError"
    ELSE "none"

\* line 295: lhs(nfeats, samples=nsamples) gives one point per stratum and
\* column, in [0, 1].  The design of the model: sample sidx falls in stratum
\* (sidx + fidx) mod nsamples of column fidx, at the stratum's share of [0, 1].
LhsPoint(sidx, fidx, nsamples) ==
    RoundDiv(Fx(1) * ((sidx + fidx) % nsamples), nsamples - 1)

\* line 300: uniform(loc, scale).ppf(q) = loc + scale * q
UniformPpf(loc, scale, q) == loc + RoundDiv(scale * q, Prec)

LhsSupported == {VarType.INTEGER, VarType.BOOL, VarType.ENUM, VarType.REAL}

\* lines 302-314: sample sidx of the design, as a configuration
LhsSample(knobs, sidx, nsamples) ==
    LET supported == {i \in 1..Len(knobs) : knobs[i].vartype \in LhsSupported}
        idx(name) == CHOOSE i \in supported : knobs[i].name = name
        point(i) == UniformPpf(FloatOf(knobs[i].minval).val,
                               FloatOf(knobs[i].maxval).val - FloatOf(knobs[i].minval).val,
                               LhsPoint(sidx, i, nsamples))
    IN  [name \in {knobs[i].name : i \in supported} |->
            IF knobs[idx(name)].vartype = VarType.REAL
            THEN point(idx(name))
            ELSE RoundToInt(point(idx(name)))]

\* an element of the pool: the configuration and, for the claims, the
\* identity of the list element (generation and index in the design)
PoolEntry(knobs, gen, sidx, nsamples) ==
    [id |-> <<gen, sidx>>, conf |-> LhsSample(knobs, sidx, nsamples)]

\* line 315: random.shuffle(lhs_samples).  Of the orders a shuffle can give
\* the model takes those that move one drawn element to the end of the list,
\* where pop() takes it, and keep the others in the order of the design.
Shuffled(pool, k) ==
    [i \in 1..Len(pool) |->
        IF i = k THEN pool[Len(pool)] ELSE IF i = Len(pool) THEN pool[k] ELSE pool[i]]

\* the draws of the model: the first, the middle and the last element
ShuffleDraws(nsamples) == {1, (nsamples + 1) \div 2, nsamples}

\* gen_lhs_samples(knobs, nsamples), shuffled by the draw k
GenLhsSamples(knobs, nsamples, gen, k) ==
    Shuffled([sidx \in 1..nsamples |-> PoolEntry(knobs, gen, sidx, nsamples)], k)

\* the values random.randint / random.uniform draw, as shares of the range
RandomDraws == {0, Prec \div 2, Prec}

\* gen_random_data(knobs) for the draw u
GenRandomData(knobs, u) ==
    LET idx(name) == CHOOSE i \in 1..Len(knobs) : knobs[i].name = name
        val(knob) ==
            IF knob.vartype = VarType.BOOL
            THEN (IF u < Prec \div 2 THEN Fx(0) ELSE Fx(1))
            ELSE IF knob.vartype = VarType.ENUM
            THEN Fx(RoundDiv((Len(knob.enumvals) - 1) * u, Prec))
            ELSE IF knob.vartype = VarType.INTEGER
            THEN Fx(TruncToInt(FloatOf(knob.minval).val)
                    + RoundDiv((TruncToInt(FloatOf(knob.maxval).val)
                                - TruncToInt(FloatOf(knob.minval).val)) * u, Prec))
            ELSE FloatOf(knob.minval).val
                 + RoundDiv((FloatOf(knob.maxval).val - FloatOf(knob.minval).val) * u, Prec)
    IN  [name \in {knobs[i].name : i \in 1..Len(knobs)} |->
            IF knobs[idx(name)].vartype \in {VarType.STRING, VarType.TIMESTAMP}
            THEN "None"
            ELSE val(knobs[idx(name)])]

(***************************************************************************)
(* The pipeline of one session.  A Result arrives (new_result), and the    *)
(* chain of tasks runs on it: aggregate_target_results, map_workload and   *)
(* configuration_recommendation, or, for DDPG, train_ddpg and              *)
(* configuration_recommendation_ddpg.                                      *)
(***************************************************************************)
AlgorithmType == [GPR |-> "GPR", DNN |-> "DNN", DDPG |-> "DDPG"]

\* the catalogs of the sessions of the model
NumericCatalog ==
    <<Knob("buffer_pool", VarType.INTEGER, "7", NoEnumvals, "1", "10"),
      Knob("checkpoint_ratio", VarType.REAL, "1", NoEnumvals, "0", "7")>>

SwitchCatalog ==
    <<Knob("autocommit", VarType.BOOL, "on", NoEnumvals, "0", "1"),
      Knob("isolation", VarType.ENUM, "read-committed", IsolationVals, "0", "1")>>

TextCatalog ==
    <<Knob("buffer_pool", VarType.INTEGER, "7", NoEnumvals, "1", "10"),
      Knob("log_dir", VarType.STRING, "abc", NoEnumvals, NoneVal, NoneVal)>>

SessionCatalogs == {NumericCatalog, SwitchCatalog, TextCatalog}

CatalogNames(knobs) == [i \in 1..Len(knobs) |-> knobs[i].name]

\* lines 197 and 199: the sizes of a generated pool
LhsModeSamples == 100
DefaultSamples == 10

PoolSizeDefault(mode) == DefaultSamples

PoolSize(mode) == IF mode = "lhs" THEN LhsModeSamples ELSE DefaultSamples

PopKept(all_samples) ==
    [samples |-> all_samples[Len(all_samples)], rest |-> all_samples]

\* line 202: samples = all_samples.pop() takes the last element off the list
Pop(all_samples) ==
    [samples |-> all_samples[Len(all_samples)],
     rest |-> SubSeq(all_samples, 1, Len(all_samples) - 1)]

NoRecommendation == << >>

\* session.ddpg_actor_model, ddpg_critic_model and ddpg_reply_memory are None
\* until the first train_ddpg call saves them
NoModel == << >>
NoMemory == << >>

\* lines 43-47: max_retries = 0, and no task asks for a retry: a task that
\* raises is not run again and the chain stops there
max_retries == 0

AfterRaiseRetry(task) == task

\* the stage of the pipeline after the given task has raised
AfterRaise(task) == IF max_retries > 0 THEN task ELSE "failed"

\* one execution of a task, for the claims: the task, the Result it ran for,
\* the branch it took, the parts of its work it performed and whether it raised
Executed(result_id, task, branch, ops, raised) ==
    [result_id |-> result_id, task |-> task, branch |-> branch, ops |-> ops,
     raised |-> raised]

\* the knob values a Result was observed with: every knob at the low or at
\* the high end of its range (a knob without a range: 0), an unknown label: 0
ObservedRow(knobs, labels, high) ==
    [c \in 1..Len(labels) |->
        IF \E i \in 1..Len(knobs) : knobs[i].name = labels[c]
        THEN LET knob == knobs[CHOOSE i \in 1..Len(knobs) : knobs[i].name = labels[c]]
             IN  IF FloatOf(knob.minval).exc # "none" THEN 0
                 ELSE IF high THEN FloatOf(knob.maxval).val ELSE FloatOf(knob.minval).val
        ELSE 0]

\* the metric labels of the Results and of the pipeline data
PipelineMetricLabels == <<"throughput", "latency">>

\* the metric catalogs of the sessions of the model: without and with an
\* entry for the target objective
MetricCatalogs == {<<PipelineMetricLabels[2]>>, PipelineMetricLabels}

Init ==
    /\ session_knobs \in SessionCatalogs
    /\ tuning_session \in {"tuning_session", "lhs", "randomly_generate"}
    /\ algorithm \in {AlgorithmType.GPR, AlgorithmType.DNN, AlgorithmType.DDPG}
    /\ has_pipeline_data \in BOOLEAN
    \* a session with a text knob is followed through its cold start only
    /\ session_knobs = TextCatalog =>
          /\ algorithm # AlgorithmType.DDPG
          /\ ~has_pipeline_data \/ tuning_session # "tuning_session"
    /\ X_columnlabels \in {CatalogNames(session_knobs),
                           CatalogNames(session_knobs) \o <<"unknown_knob">>}
    \* the pool is empty, or holds what an earlier pool has left
    /\ lhs_samples \in
          {<< >>} \cup
          (IF BoundsException(session_knobs) = "none"
           THEN {<<PoolEntry(session_knobs, 0, 1, PoolSize(tuning_session))>>}
           ELSE {})
    /\ lhs_issued = {lhs_samples[i].id : i \in 1..Len(lhs_samples)}
    /\ lhs_generations = 0
    /\ lhs_returned = << >>
    /\ lhs_call = NoCall
    /\ results = << >>
    /\ stage = "idle"
    /\ target_data = NoPayload
    /\ ddpg_reply_memory = NoMemory
    /\ ddpg_model = NoModel
    /\ run_log = << >>
    /\ knob_matrix = << >> /\ knob_labels = << >> /\ knob_call = "idle"
    /\ new_matrix = << >> /\ new_labels = << >>
    /\ target_objective = PipelineMetricLabels[1]
    \* the metric catalog is read by the DDPG tasks only
    /\ metric_objs \in IF algorithm = AlgorithmType.DDPG THEN MetricCatalogs
                       ELSE {PipelineMetricLabels}
    /\ metric_matrix = << >> /\ metric_labels = << >> /\ metric_call = "idle"
    /\ metric_out = << >> /\ metric_cat = << >>
    \* the hyperparameters and the target objective's direction
    /\ IF algorithm = AlgorithmType.DDPG
       THEN /\ improvement \in {LESS_IS_BETTER, MORE_IS_BETTER}
            /\ DDPG_SIMPLE_REWARD \in BOOLEAN
       ELSE /\ improvement = LESS_IS_BETTER
            /\ DDPG_SIMPLE_REWARD = FALSE
    /\ base_objective = 0 /\ prev_objective = 0 /\ objective = 0
    /\ reward = NoReward /\ reward_call = "idle"
    /\ MapIdle
    /\ CombineIdle
    /\ RaceIdle

\* a benchmark finishes: its Result is created and the pipeline of the
\* session's algorithm is dispatched on it
new_result ==
    /\ stage \in {"idle", "done", "failed"}
    /\ Len(results) < MaxTrials
    /\ \E high \in BOOLEAN :
          results' = Append(results,
                       [X |-> ObservedRow(session_knobs, X_columnlabels, high),
                        y |-> IF high THEN 80 ELSE 100,
                        next_configuration |-> NoRecommendation,
                        \* for the claims: how often next_configuration was saved
                        writes |-> 0])
    /\ stage' = IF algorithm = AlgorithmType.DDPG
                THEN "train_ddpg" ELSE "aggregate_target_results"
    /\ target_data' = NoPayload
    /\ UNCHANGED <<session_vars, lhs_vars, ddpg_vars, run_log,
                   knob_vars, metric_vars, reward_vars, map_vars, combine_vars,
                   race_vars>>

\* the metrics of a Result: every metric at the Result's objective value
MetricRow(result) == [c \in 1..Len(PipelineMetricLabels) |-> Fx(result.y)]

\* DataUtil.aggregate_data(results) as the payload's first fields
AggData(result_id, rows, ys, labels, bad, config) ==
    [keys |-> {"newest_result_id", "bad", "X_matrix", "X_columnlabels", "y_matrix",
               "y_columnlabels"}
              \cup (IF bad THEN {"config_recommend"} ELSE {}),
     newest_result_id |-> result_id, bad |-> bad, config_recommend |-> config,
     X_matrix |-> rows, X_columnlabels |-> labels,
     y_matrix |-> ys, y_columnlabels |-> PipelineMetricLabels,
     pipeline_run |-> "unset", mapped_workload |-> NoWorkload, scores |-> << >>]

\* lines 189-211: the LHS branch.  draw is the element the shuffle of a newly
\* generated pool leaves last.
aggregate_lhs(draw) ==
    LET result_id == Len(results)
        nsamples == PoolSize(tuning_session)
        generate == Len(lhs_samples) = 0
    IN  IF generate /\ BoundsException(session_knobs) # "none"
        THEN /\ stage' = AfterRaise(stage)
             /\ target_data' = NoPayload
             /\ run_log' = Append(run_log, Executed(result_id, stage, "lhs", {}, TRUE))
             /\ UNCHANGED lhs_vars
        ELSE \E all_samples \in {IF generate
                                 THEN GenLhsSamples(session_knobs, nsamples,
                                                    lhs_generations + 1, draw)
                                 ELSE lhs_samples} :
               \E samples \in {Pop(all_samples).samples} :
                 /\ (~generate => draw = nsamples)
                 \* lines 208-209: the list after the pop is saved on the session
                 /\ lhs_samples' = Pop(all_samples).rest
                 /\ target_data' = AggData(result_id, <<results[result_id].X>>,
                                           <<MetricRow(results[result_id])>>,
                                           X_columnlabels, TRUE, samples.conf)
                 /\ stage' = "map_workload"
                 /\ run_log' = Append(run_log, Executed(result_id, stage, "lhs", {}, FALSE))
                 /\ lhs_call' = [result_id |-> result_id,
                                 generated |-> IF generate THEN all_samples ELSE << >>,
                                 popped_from |-> Len(all_samples),
                                 returned |-> samples]
                 /\ lhs_returned' = Append(lhs_returned, samples.id)
                 /\ lhs_generations' = IF generate THEN lhs_generations + 1
                                       ELSE lhs_generations
                 /\ lhs_issued' = lhs_issued \cup
                                    {all_samples[i].id : i \in 1..Len(all_samples)}

\* lines 213-224: the random branch, for the draw u
aggregate_random(u) ==
    LET result_id == Len(results)
    IN  /\ target_data' = AggData(result_id, <<results[result_id].X>>,
                                  <<MetricRow(results[result_id])>>, X_columnlabels,
                                  TRUE, GenRandomData(session_knobs, u))
        /\ stage' = "map_workload"
        /\ run_log' = Append(run_log, Executed(result_id, stage, "random", {}, FALSE))
        /\ UNCHANGED lhs_vars

\* lines 226-246: the normal branch
aggregate_normal ==
    LET result_id == Len(results)
        target_results == results
        rows == [r \in 1..Len(target_results) |-> target_results[r].X]
        cleaned == CleanKnobData(rows, X_columnlabels, session_knobs)
        raised == Len(target_results) = 0 \/ cleaned.exc # "none"
    IN  /\ IF raised
           THEN /\ stage' = AfterRaise(stage)
                /\ target_data' = NoPayload
           ELSE /\ stage' = "map_workload"
                /\ target_data' = AggData(result_id, cleaned.matrix,
                                          [r \in 1..Len(target_results) |->
                                              MetricRow(target_results[r])],
                                          cleaned.labels, FALSE, NoConfig)
        /\ run_log' = Append(run_log,
                             Executed(result_id, stage,
                                      IF Len(target_results) = 0 THEN "normal, no results"
                                      ELSE "normal", {}, raised))
        /\ UNCHANGED lhs_vars

BranchModeOnly(has_data, mode) ==
    IF mode = "lhs" THEN "lhs"
    ELSE IF mode = "randomly_generate" THEN "random"
    ELSE "normal"

\* lines 189, 213 and 226: the branch a call takes
Branch(has_data, mode) ==
    IF ~has_data \/ mode = "lhs" THEN "lhs"
    ELSE IF mode = "randomly_generate" THEN "random"
    ELSE "normal"

\* the task aggregate_target_results(result_id, algorithm), lines 181-248
aggregate_target_results ==
    /\ stage = "aggregate_target_results"
    /\ Len(run_log) < MaxLog
    /\ CASE Branch(has_pipeline_data, tuning_session) = "lhs" ->
               \E draw \in ShuffleDraws(PoolSize(tuning_session)) : aggregate_lhs(draw)
         [] Branch(has_pipeline_data, tuning_session) = "random" ->
               \E u \in RandomDraws : aggregate_random(u)
         [] OTHER -> aggregate_normal
    /\ UNCHANGED <<session_vars, results, ddpg_vars,
                   knob_vars, metric_vars, reward_vars, map_vars, combine_vars,
                   race_vars>>

(***************************************************************************)
(* The scalers of sklearn on the fixed-point grid.                         *)
(***************************************************************************)
Column(X, c) == [r \in 1..Len(X) |-> X[r][c]]

\* StandardScaler().fit(X): mean_ and scale_ (the standard deviation, 1 for
\* a constant column) of every column
StandardScalerFit(X) ==
    LET n == Len(X)
        mean(c) == RoundDiv(SumOver(Column(X, c), n), n)
        var(c) == RoundDiv(SumOver([r \in 1..n |-> (X[r][c] - mean(c)) * (X[r][c] - mean(c))],
                                   n), n)
    IN  [mean_ |-> [c \in 1..Len(X[1]) |-> mean(c)],
         scale_ |-> [c \in 1..Len(X[1]) |->
                       IF ISqrt(var(c)) = 0 THEN Fx(1) ELSE ISqrt(var(c))]]

\* X_scaler.transform(row): (x - mean_) / scale_
StandardTransform(scaler, row) ==
    [c \in 1..Len(row) |-> RoundDiv((row[c] - scaler.mean_[c]) * Prec, scaler.scale_[c])]

\* X_scaler.inverse_transform(row): x * scale_ + mean_
StandardInverse(scaler, row) ==
    [c \in 1..Len(row) |-> RoundDiv(row[c] * scaler.scale_[c], Prec) + scaler.mean_[c]]

\* MinMaxScaler().fit(<<mins, maxs>>): scale_ = 1 / (max - min) (1 for an
\* empty range) and min_ = 0 - min * scale_
MinMaxScalerFit(mins, maxs) ==
    LET scale(c) == IF maxs[c] = mins[c] THEN Fx(1)
                    ELSE RoundDiv(Fx(1) * Prec, maxs[c] - mins[c])
    IN  [scale_ |-> [c \in 1..Len(mins) |-> scale(c)],
         min_ |-> [c \in 1..Len(mins) |-> 0 - RoundDiv(mins[c] * scale(c), Prec)]]

\* transform(row): x * scale_ + min_
MinMaxTransform(scaler, row) ==
    [c \in 1..Len(row) |-> RoundDiv(row[c] * scaler.scale_[c], Prec) + scaler.min_[c]]

\* inverse_transform(row): (x - min_) / scale_
MinMaxInverse(scaler, row) ==
    [c \in 1..Len(row) |-> RoundDiv((row[c] - scaler.min_[c]) * Prec, scaler.scale_[c])]

\* the knob of the catalog with the given name
KnobNamed(knobs, name) == knobs[CHOOSE i \in 1..Len(knobs) : knobs[i].name = name]

\* {k: row[i] for i, k in enumerate(labels)}
ConfMap(labels, row) ==
    [name \in Range(labels) |-> row[CHOOSE i \in 1..Len(labels) : labels[i] = name]]

(***************************************************************************)
(* create_and_save_recommendation, lines 426-440.  The formatting of the   *)
(* knobs for the DBMS is outside this file: the recommendation holds the   *)
(* knob values as they are passed.                                         *)
(***************************************************************************)
Recommendation(recommended_knobs, result_id, status, info, pipeline_run) ==
    [status |-> status, result_id |-> result_id, recommendation |-> recommended_knobs,
     info |-> info, pipeline_run |-> pipeline_run]

SaveNothing(result_id, retval) == results

SaveRecommendation(result_id, retval) ==
    [results EXCEPT ![result_id].next_configuration = retval,
                    ![result_id].writes = @ + 1]

(***************************************************************************)
(* map_workload in the pipeline, lines 817-1000.  The pipeline data holds  *)
(* the workloads of WorkloadIds; their predictions at the target's rows    *)
(* are inputs of the step.                                                 *)
(***************************************************************************)
PipelineBins == {[c \in 1..Len(PrunedMetrics) |-> b] : b \in BinValues}

map_workload ==
    /\ stage = "map_workload"
    /\ Len(run_log) < MaxLog
    /\ IF target_data.bad
       THEN /\ target_data' = [target_data EXCEPT !.pipeline_run = "None",
                                                  !.keys = @ \cup {"pipeline_run"}]
            /\ run_log' = Append(run_log, Executed(target_data.newest_result_id, stage,
                                                   "bad", {}, FALSE))
       ELSE \E parsed \in BOOLEAN, pred \in [WorkloadIds -> PipelineBins] :
              LET target == <<[c \in 1..Len(PrunedMetrics) |-> BinStart]>>
                  scores == [w \in WorkloadIds |-> Score(<<pred[w]>>, target)]
                  best == BestOf(<<1, 2>>, scores, NoBest)
              IN  /\ ~parsed => \A w \in WorkloadIds : pred[w][1] = BinStart
                  /\ target_data' =
                       IF parsed
                       THEN [target_data EXCEPT
                               !.keys = @ \cup {"pipeline_run", "mapped_workload", "scores"},
                               !.pipeline_run = "latest",
                               !.mapped_workload =
                                   <<best.id, WorkloadName(best.id), best.score>>,
                               !.scores = [w \in WorkloadIds |->
                                              <<WorkloadName(w), scores[w]>>]]
                       \* lines 923-928: no workload of the pipeline data has Results
                       ELSE [target_data EXCEPT
                               !.keys = @ \cup {"pipeline_run", "mapped_workload", "scores"},
                               !.pipeline_run = "latest",
                               !.mapped_workload = NoWorkload,
                               !.scores = << >>]
                  /\ run_log' = Append(run_log,
                                       Executed(target_data.newest_result_id, stage, "good",
                                                IF parsed THEN {"mapping"} ELSE {}, FALSE))
    /\ stage' = "configuration_recommendation"
    /\ UNCHANGED <<session_vars, results, lhs_vars, ddpg_vars,
                   knob_vars, metric_vars, reward_vars, map_vars, combine_vars,
                   race_vars>>

(***************************************************************************)
(* combine_workload, lines 483-669.                                        *)
(***************************************************************************)
\* the knob data the pipeline holds for a workload: one configuration, a
\* third (workload 1) or two thirds (workload 2) into every knob's range
WorkloadKnobData(knobs, w) ==
    <<[c \in 1..Len(knobs) |->
         FloatOf(knobs[c].minval).val
         + RoundDiv(w * (FloatOf(knobs[c].maxval).val - FloatOf(knobs[c].minval).val), 3)]>>

RECURSIVE Distinct(_)
\* DataUtil.combine_duplicate_rows: every row once
Distinct(rows) ==
    IF rows = << >> THEN << >>
    ELSE LET rest == Distinct(SubSeq(rows, 1, Len(rows) - 1))
         IN  IF rows[Len(rows)] \in Range(rest) THEN rest
             ELSE Append(rest, rows[Len(rows)])

WithoutNone(rows, target) == rows

RECURSIVE Without(_, _)
\* lines 569-576: the rows that do not appear in the target data
Without(rows, target) ==
    IF rows = << >> THEN << >>
    ELSE (IF Head(rows) \in Range(target) THEN << >> ELSE <<Head(rows)>>)
         \o Without(Tail(rows), target)

\* the columns idxs of a row, and of every row of a matrix
Cols(row, idxs) == [k \in 1..Len(idxs) |-> row[idxs[k]]]
ColsOf(matrix, idxs) == [r \in 1..Len(matrix) |-> Cols(matrix[r], idxs)]

RECURSIVE IdxsWhere(_, _, _)
\* [i for i, cl in enumerate(labels) if cl in wanted], from index i on
IdxsWhere(labels, wanted, i) ==
    IF i > Len(labels) THEN << >>
    ELSE (IF labels[i] \in wanted THEN <<i>> ELSE << >>) \o IdxsWhere(labels, wanted, i + 1)

ArrayEqualAsSets(a, b) == Range(a) = Range(b)

\* np.array_equal(a, b)
ArrayEqual(a, b) == a = b

AllKnobIdxs(labels, ranked_knobs, number) == [i \in 1..Len(labels) |-> i]

\* lines 540-541: the columns whose label is among the first
\* IMPORTANT_KNOB_NUMBER ranked knobs
RankedKnobIdxs(labels, ranked_knobs, number) ==
    IdxsWhere(labels,
              Range(SubSeq(ranked_knobs, 1,
                           IF number < Len(ranked_knobs) THEN number ELSE Len(ranked_knobs))),
              1)

\* DataUtil.combine_duplicate_rows(X, y, rowlabels): the rows with a knob
\* configuration not seen in an earlier row, with their metrics
FirstSeen(X) == {r \in 1..Len(X) : \A q \in 1..(r - 1) : X[q] # X[r]}

RECURSIVE Keep(_, _, _)
\* the rows of m whose index is in rows, from index r on
Keep(m, rows, r) ==
    IF r > Len(m) THEN << >>
    ELSE (IF r \in rows THEN <<m[r]>> ELSE << >>) \o Keep(m, rows, r + 1)

SignedMetricFlipped(y_scaled, lessisbetter) ==
    IF lessisbetter THEN [r \in 1..Len(y_scaled) |-> <<0 - y_scaled[r][1]>>] ELSE y_scaled

\* lines 630-631: if not lessisbetter: y_scaled = -y_scaled
SignedMetric(y_scaled, lessisbetter) ==
    IF ~lessisbetter THEN [r \in 1..Len(y_scaled) |-> <<0 - y_scaled[r][1]>>] ELSE y_scaled

\* fit_transform of a StandardScaler on the rows of m
FitTransform(m) ==
    [r \in 1..Len(m) |-> StandardTransform(StandardScalerFit(m), m[r])]

ScaledMetricTargetOnly(y_target_, y_workload) == FitTransform(y_target_)

\* lines 603-623: the scaled metric column of the target and the workload rows
ScaledMetric(y_target_, y_workload) ==
    IF Len(y_target_) < 5
    THEN FitTransform(y_target_ \o y_workload)
    \* fit_transform raises ValueError on a matrix without rows
    ELSE IF Len(y_workload) = 0
    THEN FitTransform(y_target_)
    ELSE FitTransform(y_target_) \o FitTransform(y_workload)

\* combine_workload(target_data), lines 483-669.  target is the payload;
\* workload is the pipeline data of the mapped workload (its knob data, metric
\* data and ranked knobs); number is params['IMPORTANT_KNOB_NUMBER'].
combine_workload(target, workload, number, target_obj, lessisbetter, knobs) ==
    LET mapped == target.mapped_workload # NoWorkload
        cleaned == IF mapped
                   THEN CleanKnobData(workload.knob_data, workload.knob_labels, knobs)
                   ELSE [exc |-> "none", matrix |-> target.X_matrix,
                         labels |-> target.X_columnlabels]
        y_workload0 == IF mapped THEN workload.metric_data ELSE target.y_matrix
        y_columnlabels == IF mapped THEN workload.metric_labels ELSE target.y_columnlabels
        \* lines 534-544
        ranked_knob_idxs == IF mapped
                            THEN RankedKnobIdxs(cleaned.labels, workload.ranked_knobs, number)
                            ELSE [i \in 1..Len(cleaned.labels) |-> i]
        X_columnlabels_ == Cols(cleaned.labels, ranked_knob_idxs)
        X_workload1 == ColsOf(cleaned.matrix, ranked_knob_idxs)
        X_target1 == ColsOf(target.X_matrix, ranked_knob_idxs)
        \* lines 547-559
        target_obj_idx == IdxsWhere(y_columnlabels, {target_obj}, 1)
        y_workload1 == ColsOf(y_workload0, target_obj_idx)
        y_target1 == ColsOf(target.y_matrix, target_obj_idx)
        \* lines 562-565
        X_workload2 == Distinct(X_workload1)
        y_workload2 == Keep(y_workload1, FirstSeen(X_workload1), 1)
        X_target == Distinct(X_target1)
        y_target_ == Keep(y_target1, FirstSeen(X_target1), 1)
        \* lines 569-576
        dups_filter == {i \in 1..Len(X_workload2) : X_workload2[i] \notin Range(X_target)}
        X_workload == Without(X_workload2, X_target)
        y_workload == Keep(y_workload2, dups_filter, 1)
        \* line 579
        X_matrix == X_target \o X_workload
        X_scaler == StandardScalerFit(X_matrix)
        y_scaled == SignedMetric(ScaledMetric(y_target_, y_workload), lessisbetter)
        minvals == [c \in 1..Len(X_columnlabels_) |->
                       FloatOf(KnobNamed(knobs, X_columnlabels_[c]).minval).val]
        maxvals == [c \in 1..Len(X_columnlabels_) |->
                       FloatOf(KnobNamed(knobs, X_columnlabels_[c]).maxval).val]
        exc == IF ~({"pipeline_run", "mapped_workload"} \subseteq target.keys) THEN "KeyError"
               ELSE IF cleaned.exc # "none" THEN cleaned.exc
               ELSE IF ~ArrayEqual(cleaned.labels, target.X_columnlabels)
               THEN "Exception: X columnlabels"
               ELSE IF ~ArrayEqual(y_columnlabels, target.y_columnlabels)
               THEN "Exception: y columnlabels"
               ELSE IF Len(target_obj_idx) = 0 THEN "Exception: no target objective"
               ELSE IF Len(target_obj_idx) > 1 THEN "Exception: target objective repeated"
               ELSE "none"
    IN  IF exc # "none"
        THEN [exc |-> exc]
        ELSE [exc |-> "none",
              X_columnlabels |-> X_columnlabels_,
              X_scaler |-> X_scaler,
              X_scaled |-> [r \in 1..Len(X_matrix) |-> StandardTransform(X_scaler, X_matrix[r])],
              y_scaled |-> y_scaled,
              X_min |-> StandardTransform(X_scaler, minvals),
              X_max |-> StandardTransform(X_scaler, maxvals),
              \* for the claims: the training set before scaling, and its two parts
              X_matrix |-> X_matrix, X_target |-> X_target, X_workload |-> X_workload,
              y_matrix |-> y_target_ \o y_workload]

\* the pipeline data of workload w: its knob data, its metric data (one row,
\* every metric at 90) and its ranked knobs
PipelineData(knobs, w, y_labels) ==
    [knob_data |-> WorkloadKnobData(knobs, w),
     knob_labels |-> CatalogNames(knobs),
     metric_data |-> <<[c \in 1..Len(y_labels) |-> Fx(90)]>>,
     metric_labels |-> y_labels,
     ranked_knobs |-> CatalogNames(knobs)]

\* combine_workload on the payload of the pipeline, with the metric labels
\* the pipeline data holds for the mapped workload
CombineWorkload(payload, knobs, y_labels) ==
    combine_workload(payload,
                     PipelineData(knobs,
                                  IF payload.mapped_workload = NoWorkload THEN 1
                                  ELSE payload.mapped_workload[1],
                                  y_labels),
                     Len(knobs), target_objective,
                     improvement = LESS_IS_BETTER, knobs)


(***************************************************************************)
(* One call of combine_workload.  The target data is the payload of        *)
(* aggregate_target_results and map_workload for a session with the        *)
(* numeric catalog: up to MaxRows Results, each observed with every knob   *)
(* at the low or at the high end of its range.                             *)
(***************************************************************************)
\* the knob labels of the payload: the session's knobs, or the knobs it had
\* when the target results were aggregated (one knob fewer)
TargetKnobLabels(knobs) == {CatalogNames(knobs), SubSeq(CatalogNames(knobs), 1, Len(knobs) - 1)}

\* the metric labels of the payload: the target objective once, in either
\* position, never, or twice
TargetMetricLabels ==
    {PipelineMetricLabels, <<PipelineMetricLabels[2], PipelineMetricLabels[1]>>,
     <<PipelineMetricLabels[2], "elapsed">>,
     <<PipelineMetricLabels[1], PipelineMetricLabels[1]>>}

\* the metrics of the target's Results: the objective rising or falling from
\* Result to Result, every other metric at 5
TargetMetrics(nrows, labels, rising) ==
    [r \in 1..nrows |->
        [c \in 1..Len(labels) |->
            IF labels[c] = PipelineMetricLabels[1]
            THEN Fx(10 * (IF rising THEN r ELSE nrows + 1 - r))
            ELSE Fx(5)]]

\* the knob data the pipeline holds for the mapped workload: one
\* configuration, the same configuration twice, or a configuration together
\* with one the target has also run
WorkloadKnobVariants(knobs) ==
    LET own(w) == WorkloadKnobData(knobs, w)[1]
        low == ObservedRow(knobs, CatalogNames(knobs), FALSE)
    IN  {<<own(1)>>, <<own(1), own(1)>>, <<own(1), low>>, <<low, own(2)>>}

CombineTargets(knobs) ==
    {[keys |-> {"X_matrix", "X_columnlabels", "y_matrix", "y_columnlabels",
                "newest_result_id", "bad", "pipeline_run", "mapped_workload", "scores"},
      newest_result_id |-> Len(highs),
      bad |-> FALSE,
      X_matrix |-> [r \in 1..Len(highs) |-> ObservedRow(knobs, labels, highs[r])],
      X_columnlabels |-> labels,
      y_matrix |-> TargetMetrics(Len(highs), y_labels, rising),
      y_columnlabels |-> y_labels,
      pipeline_run |-> "latest",
      mapped_workload |-> mapped,
      scores |-> << >>] :
        highs \in SeqsUpTo(BOOLEAN, MaxRows) \ {<< >>},
        labels \in TargetKnobLabels(knobs),
        y_labels \in TargetMetricLabels,
        rising \in BOOLEAN,
        mapped \in {NoWorkload, <<1, WorkloadName(1), 0>>}}

CombineWorkloads(knobs, target) ==
    IF target.mapped_workload = NoWorkload THEN {NoPayload}
    ELSE {[knob_data |-> knob_data,
           knob_labels |-> CatalogNames(knobs),
           metric_data |-> [r \in 1..Len(knob_data) |->
                               [c \in 1..Len(y_labels) |-> Fx(90 - 20 * r)]],
           metric_labels |-> y_labels,
           ranked_knobs |-> ranked_knobs] :
             knob_data \in WorkloadKnobVariants(knobs),
             y_labels \in {target.y_columnlabels, PipelineMetricLabels},
             ranked_knobs \in {CatalogNames(knobs),
                               [i \in 1..Len(knobs) |->
                                   CatalogNames(knobs)[Len(knobs) + 1 - i]]}}

InitCombine ==
    /\ \E number \in 1..MaxKnobs, polarity \in {LESS_IS_BETTER, MORE_IS_BETTER} :
          cw_session = [knobs |-> NumericCatalog,
                        IMPORTANT_KNOB_NUMBER |-> number,
                        target_objective |-> PipelineMetricLabels[1],
                        improvement |-> polarity]
    /\ cw_target \in CombineTargets(cw_session.knobs)
    /\ cw_workload \in CombineWorkloads(cw_session.knobs, cw_target)
    /\ cw_call = "called"
    /\ cw_out = NoPayload
    /\ X_samples = << >>
    /\ KnobCallIdle
    /\ MetricCallIdle
    /\ RewardIdle
    /\ MapIdle
    /\ PipelineIdle
    /\ RaceIdle

\* one call of combine_workload(target_data)
combine_workload_call ==
    /\ cw_call = "called"
    /\ \E out \in {combine_workload(cw_target, cw_workload,
                                    cw_session.IMPORTANT_KNOB_NUMBER,
                                    cw_session.target_objective,
                                    cw_session.improvement = LESS_IS_BETTER,
                                    cw_session.knobs)} :
          /\ cw_out' = out
          /\ cw_call' = IF out.exc = "none" THEN "returned" ELSE "raised"
    /\ UNCHANGED <<cw_target, cw_workload, cw_session, X_samples, knob_vars, metric_vars,
                   reward_vars, map_vars, pipeline_vars, race_vars>>

NextCombine == combine_workload_call

SpecCombine == InitCombine /\ [][NextCombine]_vars


(***************************************************************************)
(* The seed points of the search, configuration_recommendation lines       *)
(* 697-723, on the values one call of combine_workload returns.  The       *)
(* target's Results have every knob at either end of its range, or are     *)
(* enough to have the metric scaled apart from the workload's.             *)
(***************************************************************************)
\* params['NUM_SAMPLES'] and params['TOP_NUM_CONFIG']
NUM_SAMPLES == 2
TOP_NUM_CONFIG == 2

\* the largest number of Results of the target
MaxTargetRows == 6

\* params['GPR_EPS']: the smallest step of the grid, with either sign
GprEpsValues == {1, 0 - 1}

\* np.random.rand(): a share of the range, in [0, 1)
RandomShares == {0, Prec \div 2, Prec - 1}

\* a Result with each knob at the low or at the high end of its range
CornerRow(knobs, highs) ==
    [c \in 1..Len(knobs) |->
        IF highs[c] THEN FloatOf(knobs[c].maxval).val ELSE FloatOf(knobs[c].minval).val]

\* the r-th of a series of Results that raise the first knob step by step
LadderRow(knobs, r) ==
    [c \in 1..Len(knobs) |->
        FloatOf(knobs[c].minval).val + (IF c = 1 THEN Fx(r - 1) ELSE 0)]

SearchPayload(rows, labels, rising, mapped) ==
    [keys |-> {"X_matrix", "X_columnlabels", "y_matrix", "y_columnlabels",
               "newest_result_id", "bad", "pipeline_run", "mapped_workload", "scores"},
     newest_result_id |-> Len(rows),
     bad |-> FALSE,
     X_matrix |-> rows,
     X_columnlabels |-> labels,
     y_matrix |-> TargetMetrics(Len(rows), PipelineMetricLabels, rising),
     y_columnlabels |-> PipelineMetricLabels,
     pipeline_run |-> "latest",
     mapped_workload |-> mapped,
     scores |-> << >>]

SearchTargets(knobs) ==
    LET corners == {CornerRow(knobs, highs) : highs \in [1..Len(knobs) -> BOOLEAN]}
        rowsets == (SeqsUpTo(corners, 2) \ {<< >>})
                       \cup {[r \in 1..n |-> LadderRow(knobs, r)] : n \in 4..MaxTargetRows}
    IN  {SearchPayload(rows, CatalogNames(knobs), rising, mapped) :
            rows \in rowsets, rising \in BOOLEAN,
            mapped \in {NoWorkload, <<1, WorkloadName(1), 0>>}}

\* the pipeline data of the mapped workload: a configuration of its own, one
\* the target has run, or both
SearchWorkloads(knobs, target) ==
    LET own(w) == WorkloadKnobData(knobs, w)[1]
        low == ObservedRow(knobs, CatalogNames(knobs), FALSE)
    IN  IF target.mapped_workload = NoWorkload THEN {NoPayload}
        ELSE {[knob_data |-> knob_data,
               knob_labels |-> CatalogNames(knobs),
               metric_data |-> [r \in 1..Len(knob_data) |->
                                   [c \in 1..Len(PipelineMetricLabels) |-> Fx(90 - 20 * r)]],
               metric_labels |-> PipelineMetricLabels,
               ranked_knobs |-> CatalogNames(knobs)] :
                 knob_data \in {<<own(1)>>, <<low>>, <<low, own(2)>>}}

InitSearch ==
    /\ \E number \in 1..MaxKnobs, polarity \in {LESS_IS_BETTER, MORE_IS_BETTER},
          eps \in GprEpsValues :
          cw_session = [knobs |-> NumericCatalog,
                        IMPORTANT_KNOB_NUMBER |-> number,
                        target_objective |-> PipelineMetricLabels[1],
                        improvement |-> polarity,
                        GPR_EPS |-> eps]
    /\ cw_target \in SearchTargets(cw_session.knobs)
    /\ cw_workload \in SearchWorkloads(cw_session.knobs, cw_target)
    /\ cw_call = "called"
    /\ cw_out = NoPayload
    /\ X_samples = << >>
    /\ KnobCallIdle
    /\ MetricCallIdle
    /\ RewardIdle
    /\ MapIdle
    /\ PipelineIdle
    /\ RaceIdle

\* lines 699-700: one random point between X_min and X_max
RandomPoint(X_min, X_max, u) ==
    [i \in 1..Len(X_min) |-> RoundDiv(u * (X_max[i] - X_min[i]), Prec) + X_min[i]]

RECURSIVE TopRows(_, _, _)
\* lines 702-708: the rows the priority queue gives first, by scaled metric
\* and then by index: at most n of those not in taken
TopRows(y_scaled, taken, n) ==
    LET left == (1..Len(y_scaled)) \ taken
        first == CHOOSE x \in left : \A z \in left :
                    \/ y_scaled[x][1] < y_scaled[z][1]
                    \/ y_scaled[x][1] = y_scaled[z][1] /\ x <= z
    IN  IF n = 0 \/ left = {} THEN << >>
        ELSE <<first>> \o TopRows(y_scaled, taken \cup {first}, n - 1)

\* lines 714-718: dist = sum(np.square(X_max - row)); the row minus |GPR_EPS|
\* if dist < 0.001, plus |GPR_EPS| otherwise
Nudged(row, X_max, eps) ==
    LET dist == SumOver([c \in 1..Len(row) |-> (X_max[c] - row[c]) * (X_max[c] - row[c])],
                        Len(row))
    IN  IF dist * 1000 < Prec * Prec
        THEN [c \in 1..Len(row) |-> row[c] - Abs(eps)]
        ELSE [c \in 1..Len(row) |-> row[c] + Abs(eps)]

\* lines 697-723: the random points, then the nudged best rows
seed_points ==
    /\ cw_call = "returned"
    /\ \E shares \in [1..NUM_SAMPLES -> RandomShares] :
          X_samples' =
              [k \in 1..NUM_SAMPLES |-> RandomPoint(cw_out.X_min, cw_out.X_max, shares[k])]
              \o [k \in 1..Len(TopRows(cw_out.y_scaled, {}, TOP_NUM_CONFIG)) |->
                     Nudged(cw_out.X_scaled[TopRows(cw_out.y_scaled, {}, TOP_NUM_CONFIG)[k]],
                            cw_out.X_max, cw_session.GPR_EPS)]
    /\ cw_call' = "seeded"
    /\ UNCHANGED <<cw_target, cw_workload, cw_session, cw_out, knob_vars, metric_vars,
                   reward_vars, map_vars, pipeline_vars, race_vars>>

NextSearch ==
    \/ combine_workload_call
    \/ seed_points

SpecSearch == InitSearch /\ [][NextSearch]_vars

\* np.minimum / np.maximum, element by element
Minimum(a, b) == [c \in 1..Len(a) |-> IF a[c] < b[c] THEN a[c] ELSE b[c]]
Maximum(a, b) == [c \in 1..Len(a) |-> IF a[c] > b[c] THEN a[c] ELSE b[c]]

\* res.minl_conf[best_config_idx]: the point, in scaled space, the search
\* of the GPR or DNN model ends at
SearchResults(X_min, X_max) ==
    {X_min, X_max,
     [c \in 1..Len(X_min) |-> X_min[c] - Fx(1)],
     [c \in 1..Len(X_max) |-> X_max[c] + Fx(1)],
     [c \in 1..Len(X_min) |-> (X_min[c] + X_max[c]) \div 2]}

\* lines 793-796: the final clamp, to the bounds taken back from scaled space
Clamp(best_config, X_scaler, X_min, X_max) ==
    LET X_min_inv == StandardInverse(X_scaler, X_min)
        X_max_inv == StandardInverse(X_scaler, X_max)
    IN  Maximum(Minimum(best_config, X_max_inv), X_min_inv)

SkipSearchNever(payload) == FALSE

\* line 681: if target_data['bad'] is True
SkipSearch(payload) == payload.bad = TRUE

\* the task configuration_recommendation(recommendation_input), lines 672-807
configuration_recommendation ==
    /\ stage = "configuration_recommendation"
    /\ Len(run_log) < MaxLog
    /\ IF SkipSearch(target_data)
       THEN /\ results' = SaveRecommendation(target_data.newest_result_id,
                             Recommendation(target_data.config_recommend,
                                target_data.newest_result_id, "bad",
                                IF tuning_session = "randomly_generate"
                                THEN "Randomly generated"
                                ELSE "WARNING: no training data, the config is generated by LHS",
                                target_data.pipeline_run))
            /\ stage' = "done"
            /\ run_log' = Append(run_log, Executed(target_data.newest_result_id, stage,
                                                   "bad", {}, FALSE))
       \* the metric labels of the pipeline data are those of the Results, or
       \* have drifted from them
       ELSE \E y_labels \in {PipelineMetricLabels,
                             <<PipelineMetricLabels[2], PipelineMetricLabels[1]>>} :
            \E combined \in {CombineWorkload(target_data, session_knobs, y_labels)} :
                IF combined.exc # "none"
                THEN /\ stage' = AfterRaise(stage)
                     /\ UNCHANGED results
                     /\ run_log' = Append(run_log,
                                          Executed(target_data.newest_result_id, stage,
                                                   "good", {"combine_workload"}, TRUE))
                ELSE \E minl_conf \in SearchResults(combined.X_min, combined.X_max) :
                       LET best_config ==
                               Clamp(StandardInverse(combined.X_scaler, minl_conf),
                                     combined.X_scaler, combined.X_min, combined.X_max)
                       IN  /\ results' = SaveRecommendation(target_data.newest_result_id,
                                            Recommendation(
                                               ConfMap(combined.X_columnlabels, best_config),
                                               target_data.newest_result_id, "good",
                                               "INFO: training data size",
                                               target_data.pipeline_run))
                           /\ stage' = "done"
                           /\ run_log' = Append(run_log,
                                  Executed(target_data.newest_result_id, stage, "good",
                                           {"combine_workload", "seed", "fit and predict"},
                                           FALSE))
    /\ UNCHANGED <<session_vars, target_data, lhs_vars, ddpg_vars,
                   knob_vars, metric_vars, reward_vars, map_vars, combine_vars,
                   race_vars>>

(***************************************************************************)
(* The DDPG pipeline: train_ddpg (lines 320-423) and                       *)
(* configuration_recommendation_ddpg (lines 443-480).                      *)
(***************************************************************************)
\* DataUtil.get_knob_bounds(knob_labels, session): the catalog's minimum and
\* maximum of every label
KnobBounds(labels, knobs) ==
    [mins |-> [c \in 1..Len(labels) |-> FloatOf(KnobNamed(knobs, labels[c]).minval).val],
     maxs |-> [c \in 1..Len(labels) |-> FloatOf(KnobNamed(knobs, labels[c]).maxval).val]]

\* params['DDPG_UPDATE_EPOCHS']
DDPG_UPDATE_EPOCHS == 2

\* DDPG(...): a new agent, its networks not updated yet
FreshModel == [updates |-> 0]

\* lines 413-414: the networks are loaded from the session when both are set
LoadedModel(model) == IF model # NoModel THEN model ELSE FreshModel

LoadedMemoryNever(memory) == << >>

\* lines 415-416: the replay memory is loaded from the session when it is set
LoadedMemory(memory) == IF memory # NoMemory THEN memory ELSE << >>

\* lines 352-356 and 453-456: the metrics of one Result, aligned to the
\* catalog, flattened and scaled by a MinMaxScaler fitted on that one row
NormalizedMetricData(result, objs, target) ==
    LET metric_data == CleanMetricData(<<MetricRow(result)>>, PipelineMetricLabels,
                                       objs, target).matrix[1]
    IN  MinMaxTransform(MinMaxScalerFit(metric_data, metric_data), metric_data)

train_ddpg ==
    /\ stage = "train_ddpg"
    /\ Len(run_log) < MaxLog
    /\ LET result_id == Len(results)
           session_results == SubSeq(results, 1, result_id - 1)
           base_result_id == IF Len(session_results) = 0 THEN result_id ELSE 1
           prev_result_id == IF Len(session_results) = 0 THEN result_id
                             ELSE Len(session_results)
           metric_cat_ == CleanMetricData(<<MetricRow(results[result_id])>>,
                                          PipelineMetricLabels, metric_objs,
                                          target_objective).labels
           normalized_metric_data == NormalizedMetricData(results[result_id], metric_objs,
                                                          target_objective)
           cleaned == CleanKnobData(<<results[result_id].X>>, X_columnlabels, session_knobs)
           bounds == KnobBounds(cleaned.labels, session_knobs)
           knob_data == MinMaxTransform(MinMaxScalerFit(bounds.mins, bounds.maxs),
                                        cleaned.matrix[1])
           \* lines 367-375
           target_obj_idx == IdxsWhere(metric_cat_, {target_objective}, 1)
           r == Reward(DDPG_SIMPLE_REWARD, improvement, results[base_result_id].y,
                       results[prev_result_id].y, results[result_id].y)
       IN  IF cleaned.exc # "none" \/ Len(target_obj_idx) # 1
           THEN /\ stage' = AfterRaise(stage)
                /\ run_log' = Append(run_log, Executed(result_id, stage, "", {}, TRUE))
                /\ UNCHANGED <<ddpg_vars, target_data, base_objective,
                               prev_objective, objective, reward>>
           ELSE /\ base_objective' = results[base_result_id].y
                /\ prev_objective' = results[prev_result_id].y
                /\ objective' = results[result_id].y
                /\ reward' = r
                \* lines 417-422
                /\ ddpg_reply_memory' =
                      Append(LoadedMemory(ddpg_reply_memory),
                             [state |-> normalized_metric_data, action |-> knob_data,
                              reward |-> r, next_state |-> normalized_metric_data])
                /\ ddpg_model' = [updates |-> LoadedModel(ddpg_model).updates
                                              + DDPG_UPDATE_EPOCHS]
                /\ target_data' = [newest_result_id |-> result_id]
                /\ stage' = "configuration_recommendation_ddpg"
                /\ run_log' = Append(run_log, Executed(result_id, stage, "",
                                                       {"add_sample", "update"}, FALSE))
    /\ UNCHANGED <<session_vars, results, lhs_vars, improvement, DDPG_SIMPLE_REWARD,
                   reward_call, knob_vars, metric_vars, map_vars, combine_vars,
                   race_vars>>

\* ddpg.choose_action(normalized_metric_data): one value in [0, 1] per knob
Actions(knob_num) == {[c \in 1..knob_num |-> a] : a \in {0, Fx(1) \div 2, Fx(1)}}

configuration_recommendation_ddpg ==
    /\ stage = "configuration_recommendation_ddpg"
    /\ Len(run_log) < MaxLog
    /\ LET result_id == target_data.newest_result_id
           cleaned == CleanKnobData(<<results[result_id].X>>, X_columnlabels, session_knobs)
           knob_labels_ == cleaned.labels
           bounds == KnobBounds(knob_labels_, session_knobs)
       IN  IF cleaned.exc # "none"
           THEN /\ stage' = AfterRaise(stage)
                /\ run_log' = Append(run_log, Executed(result_id, stage, "", {}, TRUE))
                /\ UNCHANGED results
           ELSE \E action \in Actions(Len(knob_labels_)) :
                  LET knob_data == MinMaxInverse(MinMaxScalerFit(bounds.mins, bounds.maxs),
                                                 action)
                  IN  /\ results' = SaveRecommendation(result_id,
                                       Recommendation(ConfMap(knob_labels_, knob_data),
                                                      result_id, "good", "INFO: ddpg",
                                                      "unset"))
                      /\ stage' = "done"
                      /\ run_log' = Append(run_log, Executed(result_id, stage, "",
                                                             {"choose_action"}, FALSE))
    /\ UNCHANGED <<session_vars, target_data, lhs_vars, ddpg_vars,
                   knob_vars, metric_vars, reward_vars, map_vars, combine_vars,
                   race_vars>>

Next ==
    \/ new_result
    \/ aggregate_target_results
    \/ map_workload
    \/ configuration_recommendation
    \/ train_ddpg
    \/ configuration_recommendation_ddpg

Spec == Init /\ [][Next]_vars

(***************************************************************************)
(* Claims on the pipeline, checked under Spec.                             *)
(***************************************************************************)
Recommended(r) == results[r].next_configuration # NoRecommendation

HasRange(knob) == knob.minval # NoneVal /\ knob.maxval # NoneVal

InRange(knob, value) ==
    FloatOf(knob.minval).val <= value /\ value <= FloatOf(knob.maxval).val

\* C1: every knob value of every recommendation persisted on a Result lies
\* within the catalog's [minval, maxval] of that knob (a knob the catalog
\* gives no range has nothing to lie within), whatever the algorithm and
\* whether the status is 'good' or 'bad'.
C1_WithinCatalogBounds ==
    \A r \in 1..Len(results) :
        Recommended(r) =>
            LET conf == results[r].next_configuration.recommendation
            IN  \A name \in DOMAIN conf :
                    HasRange(KnobNamed(session_knobs, name)) =>
                        InRange(KnobNamed(session_knobs, name), conf[name])

\* a step of aggregate_target_results that takes the LHS branch and returns
LhsCall ==
    /\ stage = "aggregate_target_results"
    /\ stage' = "map_workload"
    /\ ~has_pipeline_data \/ tuning_session = "lhs"

\* C4: a call on the LHS branch that finds the persisted pool empty generates
\* 100 samples in mode 'lhs' and 10 otherwise, takes exactly one of them off,
\* persists the other 99 or 9, and returns a payload with bad = true whose
\* config_recommend is the sample taken off.
C4_EmptyPoolGeneration ==
    [][LhsCall /\ lhs_samples = << >> =>
          /\ Len(lhs_call'.generated) = IF tuning_session = "lhs" THEN 100 ELSE 10
          /\ Len(lhs_samples') = IF tuning_session = "lhs" THEN 99 ELSE 9
          /\ \E k \in 1..Len(lhs_call'.generated) :
                /\ lhs_call'.generated[k] = lhs_call'.returned
                /\ lhs_samples' = [i \in 1..(Len(lhs_call'.generated) - 1) |->
                                      lhs_call'.generated[IF i < k THEN i ELSE i + 1]]
          /\ target_data'.bad = TRUE
          /\ target_data'.config_recommend = lhs_call'.returned.conf]_vars

C4_Witness ==
    /\ stage = "map_workload"
    /\ lhs_call # NoCall
    /\ Len(lhs_call.generated) = 100
    /\ Len(lhs_samples) = 99
    /\ target_data.bad
    /\ target_data.config_recommend = lhs_call.returned.conf

PoolIds == {lhs_samples[i].id : i \in 1..Len(lhs_samples)}

\* the pool a call pops from: the persisted one, or the one it generates
PoppedFrom == IF lhs_samples = << >> THEN lhs_call'.generated ELSE lhs_samples

\* C5: over the calls of one session that take the LHS branch, one after
\* another, every call leaves the persisted pool one element shorter than
\* the pool it popped from and returns the element it removed; no element
\* is returned by two calls, and every element that has left a pool has
\* been returned.
C5_ExactlyOncePerCall ==
    /\ [][LhsCall =>
            /\ Len(lhs_samples') = Len(PoppedFrom) - 1
            /\ \E k \in 1..Len(PoppedFrom) :
                  /\ PoppedFrom[k] = lhs_call'.returned
                  /\ lhs_samples' = [i \in 1..(Len(PoppedFrom) - 1) |->
                                        PoppedFrom[IF i < k THEN i ELSE i + 1]]
            /\ target_data'.config_recommend = lhs_call'.returned.conf
            /\ lhs_returned' = Append(lhs_returned, lhs_call'.returned.id)]_vars
    /\ [](/\ NoRepeat(lhs_returned)
          /\ PoolIds \cap Range(lhs_returned) = {}
          /\ PoolIds \cup Range(lhs_returned) = lhs_issued)

\* two calls have run, the second on the pool the first persisted
C5_Witness ==
    /\ Len(lhs_returned) = 2
    /\ lhs_call # NoCall
    /\ lhs_call.generated = << >>
    /\ lhs_generations = 1
    /\ Len(lhs_samples) = 98

\* the execution the step just taken has logged
LastRun == run_log[Len(run_log)]

Newest == Len(results)

\* C11: configuration_recommendation on a payload with bad = true does no
\* workload combination, seeding or fit and predict, saves the payload's
\* config_recommend as the Result's recommendation with status 'bad' and a
\* note, and returns; it saves a recommendation with status 'good' only for a
\* payload with bad = false; map_workload on a payload with bad = true does
\* no mapping and hands the payload on with pipeline_run = None and the same
\* config_recommend.
C11_BadSkipsSearch ==
    /\ [][stage = "configuration_recommendation" /\ target_data.bad = TRUE =>
            /\ LastRun'.ops = {} /\ ~LastRun'.raised
            /\ stage' = "done"
            /\ LET saved == results'[target_data.newest_result_id].next_configuration
               IN  /\ saved.status = "bad"
                   /\ saved.recommendation = target_data.config_recommend
                   /\ saved.info # ""]_vars
    /\ [][/\ stage = "configuration_recommendation"
          /\ results' # results
          /\ results'[target_data.newest_result_id].next_configuration.status = "good"
          => target_data.bad = FALSE]_vars
    /\ [][stage = "map_workload" /\ target_data.bad = TRUE =>
            /\ LastRun'.ops = {} /\ ~LastRun'.raised
            /\ stage' = "configuration_recommendation"
            /\ target_data'.pipeline_run = "None"
            /\ target_data'.bad = TRUE
            /\ target_data'.config_recommend = target_data.config_recommend]_vars

C11_Witness ==
    /\ stage = "done"
    /\ algorithm # AlgorithmType.DDPG
    /\ target_data.bad = TRUE
    /\ target_data.pipeline_run = "None"
    /\ results[Newest].next_configuration.status = "bad"
    /\ results[Newest].next_configuration.recommendation = target_data.config_recommend
    /\ LastRun.task = "configuration_recommendation" /\ LastRun.ops = {}

TerminalStages == {"configuration_recommendation", "configuration_recommendation_ddpg"}

\* C12: in the pipeline of a Result, next_configuration is saved only by the
\* terminal recommendation task and only on the Result the pipeline runs
\* for, never a second time, and exactly once when the pipeline has completed.
C12_WrittenOnce ==
    /\ [][\A r \in 1..Len(results) :
             results'[r] # results[r] =>
                /\ stage \in TerminalStages
                /\ r = target_data.newest_result_id
                /\ results[r].writes = 0 /\ ~Recommended(r)
                /\ results'[r].writes = 1
                /\ results'[r].next_configuration # NoRecommendation]_vars
    /\ [](\A r \in 1..Len(results) :
             /\ results[r].writes <= 1
             /\ Recommended(r) <=> results[r].writes = 1)
    /\ [](stage = "done" => results[Newest].writes = 1)
    /\ [](stage \notin {"idle", "done"} => results[Newest].writes = 0)

C12_Witness ==
    /\ stage = "done"
    /\ Len(results) = 2
    /\ results[1].writes = 1 /\ results[2].writes = 1
    /\ results[1].next_configuration.status = "good"
    /\ results[2].next_configuration.status = "good"

\* C13: no task is executed twice for a Result; once a task has raised, no
\* further task runs for that Result and its recommendation is never saved.
C13_NoRetry ==
    [](/\ \A i, j \in 1..Len(run_log) :
             (i < j /\ run_log[i].result_id = run_log[j].result_id) =>
                 /\ run_log[i].task # run_log[j].task
                 /\ ~run_log[i].raised
       /\ \A i \in 1..Len(run_log) :
             run_log[i].raised =>
                 /\ results[run_log[i].result_id].writes = 0
                 /\ ~Recommended(run_log[i].result_id))

\* a task has raised, and the session has gone on with a new Result
C13_Witness ==
    /\ Len(run_log) >= 2
    /\ run_log[1].raised
    /\ run_log[1].result_id = 1
    /\ LastRun.result_id = 2
    /\ ~Recommended(1)

\* C17: a call of aggregate_target_results takes the LHS branch iff the
\* workload has no pipeline data or the mode is 'lhs', the random branch iff
\* there is pipeline data and the mode is 'randomly_generate', and the normal
\* branch otherwise; a call that returns gives bad = true in the LHS and the
\* random branch and bad = false in the normal branch, and the normal branch
\* never finds its result set empty.
C17_OneBranch ==
    [][stage = "aggregate_target_results" =>
          /\ LastRun'.task = "aggregate_target_results"
          /\ LastRun'.branch \in {"lhs", "random", "normal"}
          /\ LastRun'.branch = "lhs" <=> (~has_pipeline_data \/ tuning_session = "lhs")
          /\ LastRun'.branch = "random" <=>
                (has_pipeline_data /\ tuning_session = "randomly_generate")
          /\ LastRun'.branch = "lhs" => lhs_returned' # lhs_returned \/ LastRun'.raised
          /\ LastRun'.branch # "lhs" => UNCHANGED lhs_vars
          /\ ~LastRun'.raised =>
                /\ target_data'.bad = (LastRun'.branch # "normal")
                /\ LastRun'.branch = "normal" =>
                      /\ Len(target_data'.X_matrix) = Len(results)
                      /\ Len(target_data'.X_matrix) >= 1]_vars

C17_Witness ==
    /\ stage = "map_workload"
    /\ LastRun.task = "aggregate_target_results"
    /\ LastRun.branch = "normal"
    /\ target_data.bad = FALSE
    /\ has_pipeline_data /\ tuning_session = "tuning_session"
    /\ Len(target_data.X_matrix) = 2

(***************************************************************************)
(* Claims about combine_workload.                                          *)
(***************************************************************************)

(***************************************************************************)
(* Claims about the DDPG tasks.                                            *)
(***************************************************************************)
\* the executions of train_ddpg that returned, oldest first
TrainingCalls ==
    LET RECURSIVE Calls(_)
        Calls(n) == IF n = 0 THEN << >>
                    ELSE Calls(n - 1)
                         \o (IF run_log[n].task = "train_ddpg" /\ ~run_log[n].raised
                             THEN <<run_log[n]>> ELSE << >>)
    IN  Calls(Len(run_log))

\* the knob vector of a Result on the scale of the catalog's ranges: 0 for a
\* knob at the low end of its range, 1.0 for one at the high end
NormalizedKnobs(result) ==
    [c \in 1..Len(session_knobs) |->
        LET col == IndexOf(X_columnlabels, session_knobs[c].name)
        IN  IF result.X[col + 1] = FloatOf(session_knobs[c].minval).val THEN 0 ELSE Fx(1)]

\* equal up to the rounding of the scaler's arithmetic
Near(a, b) == Len(a) = Len(b) /\ \A c \in 1..Len(a) : Abs(a[c] - b[c]) * 20 <= Fx(1)

\* the transition a training call on the Result adds
IsTransitionOf(t, result) ==
    /\ t.state = t.next_state
    /\ Len(t.state) = 1 + Len(metric_objs)
    /\ t.state = NormalizedMetricData(result, metric_objs, target_objective)
    /\ Near(t.action, NormalizedKnobs(result))

\* C20: a training call keeps the transitions the session holds and appends
\* one, whose state and next state are the normalized metrics of the latest
\* Result and whose action is its normalized knobs; it adds
\* DDPG_UPDATE_EPOCHS updates to the networks the session holds (to new
\* networks if it holds none) and persists both.  The persisted memory is
\* always the transitions of the training calls so far, in order, and no
\* other task changes the persisted networks or memory.
C20_TrainDdpg ==
    /\ [](/\ Len(ddpg_reply_memory) = Len(TrainingCalls)
          /\ \A k \in 1..Len(TrainingCalls) :
                IsTransitionOf(ddpg_reply_memory[k], results[TrainingCalls[k].result_id])
          /\ Len(TrainingCalls) = 0 <=> ddpg_model = NoModel
          /\ Len(TrainingCalls) > 0 =>
                ddpg_model.updates = Len(TrainingCalls) * DDPG_UPDATE_EPOCHS)
    /\ [][/\ (Len(run_log') > Len(run_log) /\ LastRun'.task = "train_ddpg"
                 /\ ~LastRun'.raised) =>
                /\ ddpg_reply_memory' # ddpg_reply_memory
                /\ SubSeq(ddpg_reply_memory', 1, Len(ddpg_reply_memory)) = ddpg_reply_memory
                /\ Len(ddpg_reply_memory') = Len(ddpg_reply_memory) + 1
                /\ ddpg_model'.updates =
                      (IF ddpg_model = NoModel THEN 0 ELSE ddpg_model.updates)
                      + DDPG_UPDATE_EPOCHS
          /\ (Len(run_log') > Len(run_log) /\ LastRun'.task = "train_ddpg"
                 /\ LastRun'.raised) => UNCHANGED ddpg_vars
          /\ stage = "configuration_recommendation_ddpg" => UNCHANGED ddpg_vars
         ]_vars

\* a session after two training calls and the recommendation that followed
C20_Witness ==
    /\ stage = "done"
    /\ algorithm = AlgorithmType.DDPG
    /\ Len(TrainingCalls) = 2
    /\ Len(ddpg_reply_memory) = 2
    /\ ddpg_reply_memory[1].action # ddpg_reply_memory[2].action
    /\ ddpg_model.updates = 2 * DDPG_UPDATE_EPOCHS
    /\ results[2].next_configuration # NoRecommendation

(***************************************************************************)
(* Two invocations of aggregate_target_results on one session, both in the *)
(* LHS branch (lines 189-211).  An invocation reads session.lhs_samples    *)
(* (line 193), generates a pool if the list is empty and pops its last     *)
(* element (lines 194-202), and saves the list on the session (lines       *)
(* 208-209).  Between these statements the other invocation may run,       *)
(* unless the invocations of a session are serialized.                     *)
(***************************************************************************)
Invocations == {1, 2}

\* the number of elements session.lhs_samples may hold before the invocations
MaxLeft == 3

MayStartAlways(p) == TRUE

\* whether invocation p may start: always, unless the invocations are
\* serialized and another one has started and not finished
MayStart(p) ==
    race_serialized => \A q \in Invocations \ {p} : race_pc[q] \in {"start", "done"}

InitRace ==
    /\ race_serialized \in BOOLEAN
    /\ race_tuning_session \in {"lhs", "tuning_session"}
    /\ \E left \in 0..MaxLeft :
          race_lhs_samples =
              SubSeq(GenLhsSamples(NumericCatalog, PoolSize(race_tuning_session), 0,
                                   PoolSize(race_tuning_session)),
                     1, left)
    /\ race_first_pool = race_lhs_samples
    /\ race_pc = [p \in Invocations |-> "start"]
    /\ race_all_samples = [p \in Invocations |-> << >>]
    /\ race_config = [p \in Invocations |-> NoConfig]
    /\ race_read_at = [p \in Invocations |-> 0]
    /\ KnobCallIdle
    /\ MetricCallIdle
    /\ RewardIdle
    /\ MapIdle
    /\ PipelineIdle
    /\ CombineIdle

\* line 193: all_samples = JSONUtil.loads(newest_result.session.lhs_samples)
race_load(p) ==
    /\ race_pc[p] = "start"
    /\ MayStart(p)
    /\ race_all_samples' = [race_all_samples EXCEPT ![p] = race_lhs_samples]
    /\ race_read_at' = [race_read_at EXCEPT
                          ![p] = Cardinality({q \in Invocations : race_pc[q] = "done"})]
    /\ race_pc' = [race_pc EXCEPT ![p] = "loaded"]
    /\ UNCHANGED <<race_serialized, race_tuning_session, race_lhs_samples, race_config,
                   race_first_pool, knob_vars, metric_vars, reward_vars, map_vars,
                   pipeline_vars, combine_vars>>

\* lines 194-207: the pool is generated if the list is empty, its last element
\* is popped and becomes agg_data['config_recommend']
race_pop(p, draw) ==
    /\ race_pc[p] = "loaded"
    /\ LET generate == Len(race_all_samples[p]) = 0
           nsamples == PoolSize(race_tuning_session)
           all_samples == IF generate
                          THEN GenLhsSamples(NumericCatalog, nsamples, p, draw)
                          ELSE race_all_samples[p]
       IN  /\ (~generate => draw = nsamples)
           /\ race_all_samples' = [race_all_samples EXCEPT ![p] = Pop(all_samples).rest]
           /\ race_config' = [race_config EXCEPT ![p] = Pop(all_samples).samples]
    /\ race_pc' = [race_pc EXCEPT ![p] = "popped"]
    /\ UNCHANGED <<race_serialized, race_tuning_session, race_lhs_samples, race_first_pool,
                   race_read_at, knob_vars, metric_vars, reward_vars, map_vars,
                   pipeline_vars, combine_vars>>

\* lines 208-209: session.lhs_samples = JSONUtil.dumps(all_samples); save()
race_save(p) ==
    /\ race_pc[p] = "popped"
    /\ race_lhs_samples' = race_all_samples[p]
    /\ race_pc' = [race_pc EXCEPT ![p] = "done"]
    /\ UNCHANGED <<race_serialized, race_tuning_session, race_all_samples, race_config,
                   race_first_pool, race_read_at, knob_vars, metric_vars, reward_vars,
                   map_vars, pipeline_vars, combine_vars>>

NextRace ==
    \E p \in Invocations :
        \/ race_load(p)
        \/ \E draw \in ShuffleDraws(PoolSize(race_tuning_session)) : race_pop(p, draw)
        \/ race_save(p)

SpecRace == InitRace /\ [][NextRace]_vars

\* both invocations have read the list, and neither had saved when the
\* other read
Overlapped ==
    /\ \A p \in Invocations : race_pc[p] # "start"
    /\ race_read_at[1] = race_read_at[2]

RaceDone == \A p \in Invocations : race_pc[p] = "done"

\* both invocations recommend the same element of the pool
DuplicateSample ==
    /\ \A p \in Invocations : race_config[p] # NoConfig
    /\ race_config[1] = race_config[2]

\* the elements the persisted list has held so far
EverPersisted ==
    Range(race_first_pool)
        \cup UNION {Range(race_all_samples[p]) : p \in {q \in Invocations : race_pc[q] = "done"}}

\* an element has left the persisted list and no invocation has returned it
LostSample ==
    \E e \in EverPersisted :
        /\ e \notin Range(race_lhs_samples)
        /\ \A p \in Invocations : race_config[p] # e

\* C16: when the invocations are serialized they never overlap, never return
\* the same sample and never lose one; when two invocations have overlapped
\* and finished, they have returned the same sample while the persisted list
\* has shrunk by one (the list was not empty), or the pool one of them
\* generated has disappeared from the persisted list (the list was empty).
C16_LhsRace ==
    /\ race_serialized => ~Overlapped /\ ~DuplicateSample /\ ~LostSample
    /\ RaceDone /\ ~Overlapped =>
          /\ ~DuplicateSample /\ ~LostSample
          /\ race_first_pool # << >> =>
                Len(race_lhs_samples) = (Len(race_first_pool) - 2) % PoolSize(race_tuning_session)
    /\ RaceDone /\ Overlapped =>
          IF race_first_pool # << >>
          THEN DuplicateSample /\ Len(race_lhs_samples) = Len(race_first_pool) - 1
          ELSE LostSample /\ ~DuplicateSample

\* two overlapped invocations have returned the same sample
C16_Witness ==
    /\ ~race_serialized
    /\ RaceDone
    /\ Overlapped
    /\ DuplicateSample
    /\ Len(race_lhs_samples) = Len(race_first_pool) - 1

CombineOver == cw_call \in {"returned", "raised"}

CombineMapped == cw_target.mapped_workload # NoWorkload

\* the label sequences of the workload side: those of the mapped workload's
\* pipeline data, the knob labels aligned to the session's catalog, or the
\* target's own when the target is combined with itself
WorkloadKnobLabels ==
    IF CombineMapped THEN CatalogNames(cw_session.knobs) ELSE cw_target.X_columnlabels

WorkloadMetricLabels ==
    IF CombineMapped THEN cw_workload.metric_labels ELSE cw_target.y_columnlabels

\* the number of times the target objective occurs in the metric labels
ObjectiveCount ==
    Cardinality({i \in 1..Len(WorkloadMetricLabels) :
                    WorkloadMetricLabels[i] = cw_session.target_objective})

\* C14: combine_workload raises exactly when the workload's knob labels
\* differ from the target's as sequences, the workload's metric labels differ
\* from the target's as sequences, or the target objective occurs in the
\* metric labels zero times or more than once; a call that raises returns
\* nothing to persist.
C14_RaisesOnMismatch ==
    CombineOver =>
        /\ cw_call = "raised" <=>
              \/ WorkloadKnobLabels # cw_target.X_columnlabels
              \/ WorkloadMetricLabels # cw_target.y_columnlabels
              \/ ObjectiveCount = 0
              \/ ObjectiveCount > 1
        /\ cw_call = "raised" => DOMAIN cw_out = {"exc"}
        /\ cw_call = "returned" => cw_out.exc = "none" /\ "X_scaled" \in DOMAIN cw_out

\* a call that raised on metric labels that agree as sets but not as sequences
C14_Witness ==
    /\ cw_call = "raised"
    /\ CombineMapped
    /\ WorkloadKnobLabels = cw_target.X_columnlabels
    /\ Range(WorkloadMetricLabels) = Range(cw_target.y_columnlabels)
    /\ ObjectiveCount = 1

\* the metric column of the training set, scaled, before any change of sign
UnsignedMetric ==
    ScaledMetric(SubSeq(cw_out.y_matrix, 1, Len(cw_out.X_target)),
                 SubSeq(cw_out.y_matrix, Len(cw_out.X_target) + 1, Len(cw_out.y_matrix)))

Negated(m) == [r \in 1..Len(m) |-> [c \in 1..Len(m[r]) |-> 0 - m[r][c]]]

\* the target objective of row q is better than that of row r
Better(q, r) ==
    IF cw_session.improvement = LESS_IS_BETTER
    THEN cw_out.y_matrix[q][1] < cw_out.y_matrix[r][1]
    ELSE cw_out.y_matrix[q][1] > cw_out.y_matrix[r][1]

\* C15 as stated: the scaled metric is negated exactly when the polarity is
\* 'lower is better' and returned un-negated when it is 'higher is better'.
C15_AsStated ==
    cw_call = "returned" =>
        cw_out.y_scaled = IF cw_session.improvement = LESS_IS_BETTER
                          THEN Negated(UnsignedMetric)
                          ELSE UnsignedMetric

\* C15, amended: the scaled metric is negated exactly when the polarity is
\* 'higher is better' and returned un-negated when it is 'lower is better',
\* so that under either polarity a better row has the smaller returned value.
C15_NegatedWhenHigherIsBetter ==
    cw_call = "returned" =>
        /\ cw_out.y_scaled = IF cw_session.improvement = MORE_IS_BETTER
                             THEN Negated(UnsignedMetric)
                             ELSE UnsignedMetric
        /\ \A q, r \in 1..Len(cw_out.y_scaled) :
              Better(q, r) => cw_out.y_scaled[q][1] < cw_out.y_scaled[r][1]

\* a call for a 'higher is better' objective whose rows differ in the metric
C15_Witness ==
    /\ cw_call = "returned"
    /\ cw_session.improvement = MORE_IS_BETTER
    /\ CombineMapped
    /\ \E q, r \in 1..Len(cw_out.y_scaled) : Better(q, r)
    /\ cw_out.y_scaled = Negated(UnsignedMetric)
    /\ cw_out.y_scaled # UnsignedMetric

\* the columns of the input data that the returned labels name
RetainedIdxs == IdxsWhere(cw_target.X_columnlabels, Range(cw_out.X_columnlabels), 1)

\* the knob configurations of the two sides, on the retained columns
TargetRows == {Cols(cw_target.X_matrix[r], RetainedIdxs) : r \in 1..Len(cw_target.X_matrix)}

WorkloadRows ==
    IF CombineMapped
    THEN {Cols(cw_workload.knob_data[r], RetainedIdxs) : r \in 1..Len(cw_workload.knob_data)}
    ELSE TargetRows

\* C18: the training set holds every knob configuration of the target once,
\* first, and after them, once each, the configurations of the workload that
\* the target has not run; when the target is combined with itself the
\* training set is the target's deduplicated rows and nothing else.
C18_TrainingSetRows ==
    cw_call = "returned" =>
        LET X_matrix == cw_out.X_matrix
            ntarget == Cardinality(TargetRows)
        IN  /\ Len(X_matrix) = ntarget + Cardinality(WorkloadRows \ TargetRows)
            /\ {X_matrix[r] : r \in 1..ntarget} = TargetRows
            /\ {X_matrix[r] : r \in (ntarget + 1)..Len(X_matrix)} = WorkloadRows \ TargetRows
            /\ NoRepeat(X_matrix)
            /\ Len(cw_out.X_scaled) = Len(X_matrix)
            /\ ~CombineMapped => Len(X_matrix) = ntarget /\ Range(X_matrix) = TargetRows

\* a call where both sides had repeated configurations, the workload had a
\* configuration of the target, and a workload row remained
C18_Witness ==
    /\ cw_call = "returned"
    /\ CombineMapped
    /\ Len(cw_target.X_matrix) > Cardinality(TargetRows)
    /\ WorkloadRows \cap TargetRows # {}
    /\ WorkloadRows \ TargetRows # {}
    /\ Len(cw_out.X_matrix) > Cardinality(TargetRows)

\* the first IMPORTANT_KNOB_NUMBER ranked knobs of the mapped workload
TopRanked ==
    LET ranked == cw_workload.ranked_knobs
        number == cw_session.IMPORTANT_KNOB_NUMBER
    IN  {ranked[i] : i \in 1..(IF number < Len(ranked) THEN number ELSE Len(ranked))}

\* the rows of the training set have one value per returned label
LabelledColumns ==
    /\ \A r \in 1..Len(cw_out.X_matrix) : Len(cw_out.X_matrix[r]) = Len(cw_out.X_columnlabels)
    /\ \A r \in 1..Len(cw_out.X_scaled) : Len(cw_out.X_scaled[r]) = Len(cw_out.X_columnlabels)
    /\ Len(cw_out.X_min) = Len(cw_out.X_columnlabels)
    /\ Len(cw_out.X_max) = Len(cw_out.X_columnlabels)
    /\ \A r \in 1..Cardinality(TargetRows) : cw_out.X_matrix[r] \in TargetRows

\* C19 as stated: in every call, with or without a mapped workload, at most
\* IMPORTANT_KNOB_NUMBER knob columns are kept and the returned labels are
\* the labels of the kept columns.
C19_AsStated ==
    cw_call = "returned" =>
        /\ Len(cw_out.X_columnlabels) <= cw_session.IMPORTANT_KNOB_NUMBER
        /\ LabelledColumns

\* C19, amended: in a call with a mapped workload both sides keep exactly the
\* knob columns whose label is among the first IMPORTANT_KNOB_NUMBER ranked
\* knobs of that workload; in a call without one every knob column is kept;
\* in both cases the returned labels are the labels of the kept columns, in
\* their original order.
C19_RankedFilterWhenMapped ==
    cw_call = "returned" =>
        /\ CombineMapped =>
              /\ cw_out.X_columnlabels =
                    Cols(cw_target.X_columnlabels,
                         IdxsWhere(cw_target.X_columnlabels, TopRanked, 1))
              /\ Len(cw_out.X_columnlabels) <= cw_session.IMPORTANT_KNOB_NUMBER
        /\ ~CombineMapped => cw_out.X_columnlabels = cw_target.X_columnlabels
        /\ LabelledColumns

\* a call with a mapped workload that dropped a knob column
C19_Witness ==
    /\ cw_call = "returned"
    /\ CombineMapped
    /\ Len(cw_out.X_columnlabels) < Len(cw_target.X_columnlabels)
    /\ Len(cw_out.X_columnlabels) = cw_session.IMPORTANT_KNOB_NUMBER

(***************************************************************************)
(* Claims about the seed points of the search.                             *)
(***************************************************************************)
WithinScaledBounds(point) ==
    \A i \in 1..Len(point) : cw_out.X_min[i] <= point[i] /\ point[i] <= cw_out.X_max[i]

\* the rows the priority queue has given
SeededRows == TopRows(cw_out.y_scaled, {}, TOP_NUM_CONFIG)

\* C21: every seed point, the random points and the nudged best rows, lies
\* between X_min and X_max in every coordinate, for best rows that themselves
\* lie between them.
C21_SeedsWithinBounds ==
    cw_call = "seeded" =>
        /\ \A k \in 1..NUM_SAMPLES : WithinScaledBounds(X_samples[k])
        /\ \A k \in 1..Len(SeededRows) :
              WithinScaledBounds(cw_out.X_scaled[SeededRows[k]]) =>
                  WithinScaledBounds(X_samples[NUM_SAMPLES + k])

\* row i of the training set and row i of its metric column come from one
\* trial: a Result of the target for the first rows, a row of the mapped
\* workload's pipeline data for the others
SameTrial(i) ==
    LET obj == IndexOf(cw_target.y_columnlabels, cw_session.target_objective) + 1
    IN  IF i <= Len(cw_out.X_target)
        THEN \E r \in 1..Len(cw_target.X_matrix) :
                /\ Cols(cw_target.X_matrix[r], RetainedIdxs) = cw_out.X_matrix[i]
                /\ cw_target.y_matrix[r][obj] = cw_out.y_matrix[i][1]
        ELSE \E r \in 1..Len(cw_workload.knob_data) :
                /\ Cols(cw_workload.knob_data[r], RetainedIdxs) = cw_out.X_matrix[i]
                /\ cw_workload.metric_data[r][obj] = cw_out.y_matrix[i][1]

\* rows i and j are both rows of the target or both rows of the workload
SameSide(i, j) == (i <= Len(cw_out.X_target)) <=> (j <= Len(cw_out.X_target))

\* the metric scaling path of the call, lines 603-623
ScalingPath ==
    IF Len(cw_out.X_target) < 5 THEN "joint"
    ELSE IF cw_out.X_workload = << >> THEN "fallback"
    ELSE "separate"

\* C22: on every return of combine_workload the scaled metric column has one
\* row per row of the scaled knob matrix, row i of both comes from the same
\* trial, target rows first, and within each side the scaled metric orders
\* the rows as the metric itself does (reversed for 'higher is better').
C22_MetricRowsAligned ==
    cw_call = "returned" =>
        /\ Len(cw_out.y_scaled) = Len(cw_out.X_scaled)
        /\ Len(cw_out.y_matrix) = Len(cw_out.X_matrix)
        /\ \A i \in 1..Len(cw_out.X_scaled) :
              /\ SameTrial(i)
              /\ cw_out.X_scaled[i] = StandardTransform(cw_out.X_scaler, cw_out.X_matrix[i])
        /\ \A i, j \in 1..Len(cw_out.y_scaled) :
              SameSide(i, j) /\ Better(i, j) => cw_out.y_scaled[i][1] < cw_out.y_scaled[j][1]

\* a call that took the fallback: five or more target rows, and a mapped
\* workload whose only configuration the target has run
C22_Witness ==
    /\ cw_call = "returned"
    /\ ScalingPath = "fallback"
    /\ CombineMapped
    /\ Len(cw_out.X_scaled) >= 5
    /\ \E i, j \in 1..Len(cw_out.y_scaled) : Better(i, j)

(***************************************************************************)
(* Claims about the note of a cold-start recommendation.                   *)
(***************************************************************************)
\* the branch aggregate_target_results took for the Result
BranchTaken(result_id) ==
    LET k == CHOOSE n \in 1..Len(run_log) :
                 /\ run_log[n].task = "aggregate_target_results"
                 /\ run_log[n].result_id = result_id
    IN  run_log[k].branch

\* C23: a recommendation persisted with status 'bad' says 'Randomly
\* generated' exactly when its configuration came from gen_random_data in the
\* random branch, and carries the LHS warning exactly when its configuration
\* was popped from the session's LHS pool.
C23_NoteMatchesBranch ==
    \A id \in 1..Len(results) :
        (Recommended(id) /\ results[id].next_configuration.status = "bad") =>
            /\ results[id].next_configuration.info = "Randomly generated"
                  <=> BranchTaken(id) = "random"
            /\ results[id].next_configuration.info
                     = "WARNING: no training data, the config is generated by LHS"
                  <=> BranchTaken(id) = "lhs"

====
